---- MODULE Spec2Model ----
(***************************************************************************)
(* Body conversion engine and message-ID cache of the outlook-assistant    *)
(* mail package (clear-route/agent-tools).                                 *)
(*                                                                         *)
(* A Go string is modelled as the sequence of its bytes.  An ASCII byte is *)
(* the one-character string of that character; a byte of a multi-byte     *)
(* UTF-8 encoding is the two-character string of its hexadecimal value    *)
(* ("E2", "84", "AA" are the three bytes of U+212A).  Offsets are Go's:    *)
(* 0-based byte offsets, s[a:b] is Slice(s, a, b).                         *)
(***************************************************************************)
EXTENDS Integers, Sequences, FiniteSets, TLC

VARIABLES
  op,       \* the operation applied to the input ("none" before the call)
  status,   \* "idle", "scan" (inside markdownToHTML's loop), "tags", "decoded",
            \* "visible" (after a step of stripHTML), "resolved", "created", "read",
            \* "patched" (after a step of Reply or Forward), "requested", "failed"
            \* (an error returned), "returned", "panicked", "hung"
  input,    \* the string argument of the operation
  format,   \* the BodyFormat argument of RenderBody
  result,   \* the returned string
  lines,    \* markdownToHTML: the lines of src
  i,        \* markdownToHTML: the index of the next line (0-based, as in the source)
  out,      \* markdownToHTML: the output built so far
  cache,    \* the ID cache file (NoFile, NullFile or ListFile)
  shown,    \* the messages printed by the last List or Search, in display order
  page,     \* the page argument of the last List (0 after a Search or before any call)
  text,     \* stripHTML: its variable text, step by step
  requests, \* the requests the running command has sent to Graph, in order
  locals,   \* Reply and Forward: the other arguments and the local variables
  stderr    \* the status lines printed on standard error

vars ==
  <<op, status, input, format, result, lines, i, out, cache, shown, page, text,
    requests, locals, stderr>>

(***************************************************************************)
(* Bounds of the model.                                                    *)
(***************************************************************************)
MaxDocFrags == 2

MaxFoldFrags == 4

MaxPlainFrags == 3

MaxTextFrags == 4

MaxInlineFrags == 5

MaxLinkFrags == 5

MaxMdFrags == 4

MaxMarkFrags == 4

MaxReduceFrags == 4

MaxBlockLines == 3

MaxFenceLines == 4

MaxSelectorFrags == 3

MaxCount == 2

MaxPage == 2

(***************************************************************************)
(* Go strings: package strings and slicing.                                *)
(***************************************************************************)
Min(S) == CHOOSE m \in S : \A x \in S : m <= x

Max(S) == 0 - Min({0 - x : x \in S})

RECURSIVE ConcatRange(_, _, _)
ConcatRange(ss, lo, hi) ==
  IF lo > hi THEN <<>>
  ELSE IF lo = hi THEN ss[lo]
  ELSE LET mid == (lo + hi) \div 2
       IN  ConcatRange(ss, lo, mid) \o ConcatRange(ss, mid + 1, hi)

\* The concatenation of a sequence of strings.
Concat(ss) == ConcatRange(ss, 1, Len(ss))

\* pat occurs in s at byte offset p.
HasPrefixAt(s, p, pat) ==
  /\ p >= 0
  /\ p + Len(pat) <= Len(s)
  /\ \A k \in 1..Len(pat) : s[p + k] = pat[k]

HasPrefix(s, pat) == HasPrefixAt(s, 0, pat)

\* strings.Index: the offset of the first occurrence of pat in s, or -1.
Index(s, pat) ==
  LET hits == {p \in 0..(Len(s) - Len(pat)) : HasPrefixAt(s, p, pat)}
  IN  IF hits = {} THEN -1 ELSE Min(hits)

\* strings.LastIndex: the offset of the last occurrence of pat in s, or -1.
LastIndex(s, pat) ==
  LET hits == {p \in 0..(Len(s) - Len(pat)) : HasPrefixAt(s, p, pat)}
  IN  IF hits = {} THEN -1 ELSE Max(hits)

\* s[a:b]; Go panics unless 0 <= a <= b <= len(s).
SliceOK(s, a, b) == 0 <= a /\ a <= b /\ b <= Len(s)

Slice(s, a, b) == SubSeq(s, a + 1, b)

\* The outcome of a call: a returned string, a run-time panic, or no return.
Ok(v) == [st |-> "returned", val |-> v]

Panic == [st |-> "panicked", val |-> <<>>]

Hang == [st |-> "hung", val |-> <<>>]

(***************************************************************************)
(* strings.ToLower.  The runes of the model: ASCII, and the runes below    *)
(* with their UTF-8 encodings and the encodings of their lower-case forms  *)
(* (unicode.ToLower).  U+212A and U+0130 get shorter, U+023A gets longer.  *)
(***************************************************************************)
KelvinSign == <<"E2", "84", "AA">>        \* U+212A, lower case U+006B "k"

CapitalIDot == <<"C4", "B0">>             \* U+0130, lower case U+0069 "i"

CapitalAStroke == <<"C8", "BA">>          \* U+023A, lower case U+2C65

SmallAStroke == <<"E2", "B1", "A5">>      \* U+2C65

RuneError == <<"EF", "BF", "BD">>         \* U+FFFD

MultiByteRunes ==
  << [enc |-> KelvinSign,     lower |-> <<"k">>],
     [enc |-> CapitalIDot,    lower |-> <<"i">>],
     [enc |-> CapitalAStroke, lower |-> SmallAStroke],
     [enc |-> SmallAStroke,   lower |-> SmallAStroke],
     [enc |-> RuneError,      lower |-> RuneError] >>

UpperLetters ==
  << "A", "B", "C", "D", "E", "F", "G", "H", "I", "J", "K", "L", "M",
     "N", "O", "P", "Q", "R", "S", "T", "U", "V", "W", "X", "Y", "Z" >>

LowerLetters ==
  << "a", "b", "c", "d", "e", "f", "g", "h", "i", "j", "k", "l", "m",
     "n", "o", "p", "q", "r", "s", "t", "u", "v", "w", "x", "y", "z" >>

\* The byte 0x60, which has no string literal of its own.
Backtick == "0x60"

\* A byte below 0x80.
IsASCII(c) == Len(c) = 1 \/ c = Backtick

LowerASCII(c) ==
  IF c \in {"A", "B", "C", "D", "E", "F", "G", "H", "I", "J", "K", "L", "M",
            "N", "O", "P", "Q", "R", "S", "T", "U", "V", "W", "X", "Y", "Z"}
  THEN LowerLetters[CHOOSE k \in 1..26 : UpperLetters[k] = c]
  ELSE c

\* The bytes ToLower writes for the byte at position p (1-based) of s:
\* the lower-case letter of an ASCII byte, the encoding of the lower-case
\* rune at the first byte of a multi-byte rune, nothing at its later bytes,
\* and U+FFFD for a byte that belongs to no rune (strings.Map).
LowerBytesAt(s, p) ==
  IF IsASCII(s[p]) THEN <<LowerASCII(s[p])>>
  ELSE IF \E r \in 1..Len(MultiByteRunes) : HasPrefixAt(s, p - 1, MultiByteRunes[r].enc)
  THEN MultiByteRunes[CHOOSE r \in 1..Len(MultiByteRunes) :
                        HasPrefixAt(s, p - 1, MultiByteRunes[r].enc)].lower
  ELSE IF \E r \in 1..Len(MultiByteRunes) :
            \E k \in 1..(Len(MultiByteRunes[r].enc) - 1) :
               HasPrefixAt(s, p - 1 - k, MultiByteRunes[r].enc)
  THEN <<>>
  ELSE RuneError

ToLower(s) == Concat([p \in 1..Len(s) |-> LowerBytesAt(s, p)])

(***************************************************************************)
(* formatting.go: the document wrapper and extractor.                      *)
(***************************************************************************)
emailCSS ==
  <<
    "\n", "b", "o", "d", "y", " ", "{", "\n", " ", " ", "f", "o", "n", "t", "-", "f", "a", "m",
    "i", "l", "y", ":", " ", "-", "a", "p", "p", "l", "e", "-", "s", "y", "s", "t", "e", "m",
    ",", " ", "B", "l", "i", "n", "k", "M", "a", "c", "S", "y", "s", "t", "e", "m", "F", "o",
    "n", "t", ",", " ", "\"", "S", "e", "g", "o", "e", " ", "U", "I", "\"", ",", " ", "R", "o",
    "b", "o", "t", "o", ",", " ", "H", "e", "l", "v", "e", "t", "i", "c", "a", ",", " ", "A",
    "r", "i", "a", "l", ",", " ", "s", "a", "n", "s", "-", "s", "e", "r", "i", "f", ";", "\n",
    " ", " ", "f", "o", "n", "t", "-", "s", "i", "z", "e", ":", " ", "1", "4", "p", "x", ";",
    "\n", " ", " ", "l", "i", "n", "e", "-", "h", "e", "i", "g", "h", "t", ":", " ", "1", ".",
    "6", ";", "\n", " ", " ", "c", "o", "l", "o", "r", ":", " ", "#", "2", "2", "2", ";", "\n",
    " ", " ", "m", "a", "r", "g", "i", "n", ":", " ", "0", ";", "\n", " ", " ", "p", "a", "d",
    "d", "i", "n", "g", ":", " ", "1", "6", "p", "x", ";", "\n", "}", "\n", "p", " ", " ", "{",
    " ", "m", "a", "r", "g", "i", "n", ":", " ", "0", " ", "0", " ", "1", "2", "p", "x", ";",
    " ", "}", "\n", "h", "1", " ", "{", " ", "f", "o", "n", "t", "-", "s", "i", "z", "e", ":",
    " ", "1", ".", "5", "e", "m", ";", " ", " ", "f", "o", "n", "t", "-", "w", "e", "i", "g",
    "h", "t", ":", " ", "6", "0", "0", ";", " ", "m", "a", "r", "g", "i", "n", ":", " ", "1",
    "6", "p", "x", " ", "0", " ", "8", "p", "x", ";", " ", "}", "\n", "h", "2", " ", "{", " ",
    "f", "o", "n", "t", "-", "s", "i", "z", "e", ":", " ", "1", ".", "3", "e", "m", ";", " ",
    " ", "f", "o", "n", "t", "-", "w", "e", "i", "g", "h", "t", ":", " ", "6", "0", "0", ";",
    " ", "m", "a", "r", "g", "i", "n", ":", " ", "1", "4", "p", "x", " ", "0", " ", "7", "p",
    "x", ";", " ", "}", "\n", "h", "3", " ", "{", " ", "f", "o", "n", "t", "-", "s", "i", "z",
    "e", ":", " ", "1", ".", "1", "e", "m", ";", " ", " ", "f", "o", "n", "t", "-", "w", "e",
    "i", "g", "h", "t", ":", " ", "6", "0", "0", ";", " ", "m", "a", "r", "g", "i", "n", ":",
    " ", "1", "2", "p", "x", " ", "0", " ", "6", "p", "x", ";", " ", "}", "\n", "h", "4", ",",
    " ", "h", "5", ",", " ", "h", "6", " ", "{", " ", "f", "o", "n", "t", "-", "s", "i", "z",
    "e", ":", " ", "1", "e", "m", ";", " ", "f", "o", "n", "t", "-", "w", "e", "i", "g", "h",
    "t", ":", " ", "6", "0", "0", ";", " ", "m", "a", "r", "g", "i", "n", ":", " ", "1", "0",
    "p", "x", " ", "0", " ", "5", "p", "x", ";", " ", "}", "\n", "u", "l", ",", " ", "o", "l",
    " ", "{", " ", "m", "a", "r", "g", "i", "n", ":", " ", "0", " ", "0", " ", "1", "2", "p",
    "x", ";", " ", "p", "a", "d", "d", "i", "n", "g", "-", "l", "e", "f", "t", ":", " ", "2",
    "4", "p", "x", ";", " ", "}", "\n", "l", "i", " ", "{", " ", "m", "a", "r", "g", "i", "n",
    "-", "b", "o", "t", "t", "o", "m", ":", " ", "4", "p", "x", ";", " ", "}", "\n", "c", "o",
    "d", "e", " ", "{", "\n", " ", " ", "f", "o", "n", "t", "-", "f", "a", "m", "i", "l", "y",
    ":", " ", "\"", "S", "F", "M", "o", "n", "o", "-", "R", "e", "g", "u", "l", "a", "r", "\"",
    ",", " ", "C", "o", "n", "s", "o", "l", "a", "s", ",", " ", "\"", "L", "i", "b", "e", "r",
    "a", "t", "i", "o", "n", " ", "M", "o", "n", "o", "\"", ",", " ", "M", "e", "n", "l", "o",
    ",", " ", "m", "o", "n", "o", "s", "p", "a", "c", "e", ";", "\n", " ", " ", "b", "a", "c",
    "k", "g", "r", "o", "u", "n", "d", ":", " ", "#", "f", "4", "f", "4", "f", "4", ";", "\n",
    " ", " ", "p", "a", "d", "d", "i", "n", "g", ":", " ", "1", "p", "x", " ", "4", "p", "x",
    ";", "\n", " ", " ", "b", "o", "r", "d", "e", "r", "-", "r", "a", "d", "i", "u", "s", ":",
    " ", "3", "p", "x", ";", "\n", " ", " ", "f", "o", "n", "t", "-", "s", "i", "z", "e", ":",
    " ", "0", ".", "9", "e", "m", ";", "\n", "}", "\n", "p", "r", "e", " ", "{", "\n", " ", " ",
    "b", "a", "c", "k", "g", "r", "o", "u", "n", "d", ":", " ", "#", "f", "4", "f", "4", "f",
    "4", ";", "\n", " ", " ", "p", "a", "d", "d", "i", "n", "g", ":", " ", "1", "2", "p", "x",
    ";", "\n", " ", " ", "b", "o", "r", "d", "e", "r", "-", "r", "a", "d", "i", "u", "s", ":",
    " ", "4", "p", "x", ";", "\n", " ", " ", "o", "v", "e", "r", "f", "l", "o", "w", "-", "x",
    ":", " ", "a", "u", "t", "o", ";", "\n", " ", " ", "m", "a", "r", "g", "i", "n", ":", " ",
    "0", " ", "0", " ", "1", "2", "p", "x", ";", "\n", "}", "\n", "p", "r", "e", " ", "c", "o",
    "d", "e", " ", "{", " ", "b", "a", "c", "k", "g", "r", "o", "u", "n", "d", ":", " ", "n",
    "o", "n", "e", ";", " ", "p", "a", "d", "d", "i", "n", "g", ":", " ", "0", ";", " ", "}",
    "\n", "b", "l", "o", "c", "k", "q", "u", "o", "t", "e", " ", "{", "\n", " ", " ", "b", "o",
    "r", "d", "e", "r", "-", "l", "e", "f", "t", ":", " ", "3", "p", "x", " ", "s", "o", "l",
    "i", "d", " ", "#", "c", "c", "c", ";", "\n", " ", " ", "m", "a", "r", "g", "i", "n", ":",
    " ", "0", " ", "0", " ", "1", "2", "p", "x", ";", "\n", " ", " ", "p", "a", "d", "d", "i",
    "n", "g", "-", "l", "e", "f", "t", ":", " ", "1", "2", "p", "x", ";", "\n", " ", " ", "c",
    "o", "l", "o", "r", ":", " ", "#", "5", "5", "5", ";", "\n", "}", "\n", "h", "r", " ", "{",
    "\n", " ", " ", "b", "o", "r", "d", "e", "r", ":", " ", "n", "o", "n", "e", ";", "\n", " ",
    " ", "b", "o", "r", "d", "e", "r", "-", "t", "o", "p", ":", " ", "1", "p", "x", " ", "s",
    "o", "l", "i", "d", " ", "#", "d", "d", "d", ";", "\n", " ", " ", "m", "a", "r", "g", "i",
    "n", ":", " ", "1", "6", "p", "x", " ", "0", ";", "\n", "}", "\n", "a", " ", "{", " ", "c",
    "o", "l", "o", "r", ":", " ", "#", "0", "0", "6", "6", "c", "c", ";", " ", "}", "\n", "s",
    "t", "r", "o", "n", "g", " ", "{", " ", "f", "o", "n", "t", "-", "w", "e", "i", "g", "h",
    "t", ":", " ", "6", "0", "0", ";", " ", "}", "\n", "e", "m", " ", "{", " ", "f", "o", "n",
    "t", "-", "s", "t", "y", "l", "e", ":", " ", "i", "t", "a", "l", "i", "c", ";", " ", "}",
    "\n"
  >>

DocHead ==
  << "<", "!", "D", "O", "C", "T", "Y", "P", "E", " ", "h", "t", "m", "l", ">", "\n",
     "<", "h", "t", "m", "l", ">", "\n",
     "<", "h", "e", "a", "d", ">", "<", "m", "e", "t", "a", " ",
     "c", "h", "a", "r", "s", "e", "t", "=", "\"", "U", "T", "F", "-", "8", "\"", ">",
     "<", "s", "t", "y", "l", "e", ">" >>

DocMid ==
  << "<", "/", "s", "t", "y", "l", "e", ">", "<", "/", "h", "e", "a", "d", ">", "\n",
     "<", "b", "o", "d", "y", ">", "\n" >>

DocTail ==
  << "\n", "<", "/", "b", "o", "d", "y", ">", "\n", "<", "/", "h", "t", "m", "l", ">" >>

wrapEmailHTML(inner) == DocHead \o emailCSS \o DocMid \o inner \o DocTail

\* ExtractBodyContent with the closing tag located by strings.Index instead
\* of strings.LastIndex: the first "</body>" of the document ends the content.
ExtractBodyContentFirstClose(s) ==
  LET lower == ToLower(s)
      start == Index(lower, <<"<", "b", "o", "d", "y">>)
      end == Index(Slice(s, start, Len(s)), <<">">>)
      bodyStart == start + end + 1
      closeTag == Index(lower, <<"<", "/", "b", "o", "d", "y", ">">>)
  IN  IF start = -1 THEN Ok(s)
      ELSE IF ~SliceOK(s, start, Len(s)) THEN Panic
      ELSE IF end = -1 THEN Ok(s)
      ELSE IF closeTag = -1
           THEN IF SliceOK(s, bodyStart, Len(s)) THEN Ok(Slice(s, bodyStart, Len(s))) ELSE Panic
      ELSE IF SliceOK(s, bodyStart, closeTag) THEN Ok(Slice(s, bodyStart, closeTag)) ELSE Panic

ExtractBodyContent(s) ==
  LET lower == ToLower(s)
      start == Index(lower, <<"<", "b", "o", "d", "y">>)
      end == Index(Slice(s, start, Len(s)), <<">">>)
      bodyStart == start + end + 1
      closeTag == LastIndex(lower, <<"<", "/", "b", "o", "d", "y", ">">>)
  IN  IF start = -1 THEN Ok(s)
      ELSE IF ~SliceOK(s, start, Len(s)) THEN Panic
      ELSE IF end = -1 THEN Ok(s)
      ELSE IF closeTag = -1
           THEN IF SliceOK(s, bodyStart, Len(s)) THEN Ok(Slice(s, bodyStart, Len(s))) ELSE Panic
      ELSE IF SliceOK(s, bodyStart, closeTag) THEN Ok(Slice(s, bodyStart, closeTag)) ELSE Panic

(***************************************************************************)
(* More of the Go library: white space, splitting, escaping.               *)
(***************************************************************************)
NoBreakSpace == <<"C2", "A0">>            \* U+00A0

NextLine == <<"C2", "85">>                \* U+0085

\* The byte at position p (1-based) belongs to a white-space rune (unicode.IsSpace).
IsSpaceByteAt(s, p) ==
  IF IsASCII(s[p]) THEN s[p] \in {" ", "\t", "\n", "\r", "\f"}
  ELSE \/ HasPrefixAt(s, p - 1, NoBreakSpace) \/ HasPrefixAt(s, p - 2, NoBreakSpace)
       \/ HasPrefixAt(s, p - 1, NextLine) \/ HasPrefixAt(s, p - 2, NextLine)

\* strings.TrimSpace
TrimSpace(s) ==
  LET keep == {p \in 1..Len(s) : ~IsSpaceByteAt(s, p)}
  IN  IF keep = {} THEN <<>> ELSE SubSeq(s, Min(keep), Max(keep))

\* strings.TrimRight(s, cutset), for a cutset of ASCII bytes
TrimRight(s, cutset) ==
  LET keep == {p \in 1..Len(s) : s[p] \notin cutset}
  IN  IF keep = {} THEN <<>> ELSE SubSeq(s, 1, Max(keep))

\* strings.TrimPrefix
TrimPrefix(s, pat) == IF HasPrefix(s, pat) THEN Slice(s, Len(pat), Len(s)) ELSE s

\* strings.Split(s, "\n"), from position from (1-based) on; nl is the set of
\* the positions of the line feeds at or after from
RECURSIVE SplitLinesFrom(_, _, _)
SplitLinesFrom(s, from, nl) ==
  IF nl = {} THEN <<SubSeq(s, from, Len(s))>>
  ELSE <<SubSeq(s, from, Min(nl) - 1)>> \o SplitLinesFrom(s, Min(nl) + 1, nl \ {Min(nl)})

SplitLines(s) == SplitLinesFrom(s, 1, {p \in 1..Len(s) : s[p] = "\n"})

\* strings.Join
RECURSIVE Join(_, _)
Join(ss, sep) ==
  IF Len(ss) = 0 THEN <<>>
  ELSE IF Len(ss) = 1 THEN ss[1]
  ELSE ss[1] \o sep \o Join(Tail(ss), sep)

\* regexp \n{2,} Split(s, -1): the pieces of s between the maximal runs of
\* two or more line feeds, from position from (1-based) on
RECURSIVE SplitParagraphsFrom(_, _)
SplitParagraphsFrom(s, from) ==
  LET runs == {p \in from..(Len(s) - 1) : s[p] = "\n" /\ s[p + 1] = "\n"}
  IN  IF runs = {} THEN <<SubSeq(s, from, Len(s))>>
      ELSE LET p == Min(runs)
               q == Min({k \in (p + 1)..Len(s) : k = Len(s) \/ s[k + 1] # "\n"})
           IN  <<SubSeq(s, from, p - 1)>> \o SplitParagraphsFrom(s, q + 1)

SplitParagraphs(s) == SplitParagraphsFrom(s, 1)

\* html.EscapeString, one byte, with the case of ">" left out.
EscapeByteNoGt(c) ==
  CASE c = "&"  -> <<"&", "a", "m", "p", ";">>
    [] c = "'"  -> <<"&", "#", "3", "9", ";">>
    [] c = "<"  -> <<"&", "l", "t", ";">>
    [] c = "\"" -> <<"&", "#", "3", "4", ";">>
    [] OTHER    -> <<c>>

\* html.EscapeString, one byte
EscapeByte(c) ==
  CASE c = "&"  -> <<"&", "a", "m", "p", ";">>
    [] c = "'"  -> <<"&", "#", "3", "9", ";">>
    [] c = "<"  -> <<"&", "l", "t", ";">>
    [] c = ">"  -> <<"&", "g", "t", ";">>
    [] c = "\"" -> <<"&", "#", "3", "4", ";">>
    [] OTHER    -> <<c>>

\* html.EscapeString
EscapeString(s) == Concat([p \in 1..Len(s) |-> EscapeByte(s[p])])

\* strings.ReplaceAll(s, "\n", rep)
ReplaceNewlines(s, rep) == Concat([p \in 1..Len(s) |-> IF s[p] = "\n" THEN rep ELSE <<s[p]>>])

(***************************************************************************)
(* formatting.go: the plain-text fragment renderer.                        *)
(***************************************************************************)
\* The <p> element textToHTMLFragment writes for one piece of the split
\* (nothing for a piece that is empty after trimming).
\* The paragraph loop without para = strings.TrimSpace(para).
ParagraphHTMLUntrimmed(para) ==
  IF TrimSpace(para) = <<>> THEN <<>>
  ELSE <<"<", "p", ">">>
       \o ReplaceNewlines(EscapeString(para), <<"<", "b", "r", ">", "\n">>)
       \o <<"<", "/", "p", ">", "\n">>

ParagraphHTML(para) ==
  LET trimmed == TrimSpace(para)
      escaped == ReplaceNewlines(EscapeString(trimmed), <<"<", "b", "r", ">", "\n">>)
  IN  IF trimmed = <<>> THEN <<>>
      ELSE <<"<", "p", ">">> \o escaped \o <<"<", "/", "p", ">", "\n">>

textToHTMLFragment(s) ==
  LET paragraphs == SplitParagraphs(s)
  IN  Concat([k \in 1..Len(paragraphs) |-> ParagraphHTML(paragraphs[k])])

(***************************************************************************)
(* mail.go: the HTML-to-text reducer.                                      *)
(***************************************************************************)
\* The tag-stripping loop of stripHTML over s[lo..hi], for both values of
\* inTag at lo: .f when it starts with inTag false, .t with inTag true;
\* each gives the text written and the value of inTag after hi.
RECURSIVE StripTagsRange(_, _, _)
StripTagsRange(s, lo, hi) ==
  IF lo > hi
  THEN [f |-> [text |-> <<>>, inTag |-> FALSE], t |-> [text |-> <<>>, inTag |-> TRUE]]
  ELSE IF lo = hi
  THEN CASE s[lo] = "<" -> [f |-> [text |-> <<>>, inTag |-> TRUE],
                           t |-> [text |-> <<>>, inTag |-> TRUE]]
         [] s[lo] = ">" -> [f |-> [text |-> <<>>, inTag |-> FALSE],
                           t |-> [text |-> <<>>, inTag |-> FALSE]]
         [] OTHER       -> [f |-> [text |-> <<s[lo]>>, inTag |-> FALSE],
                           t |-> [text |-> <<>>, inTag |-> TRUE]]
  ELSE LET mid == (lo + hi) \div 2
           L == StripTagsRange(s, lo, mid)
           R == StripTagsRange(s, mid + 1, hi)
           After(x) == IF x.inTag THEN R.t ELSE R.f
       IN  [f |-> [text |-> L.f.text \o After(L.f).text, inTag |-> After(L.f).inTag],
            t |-> [text |-> L.t.text \o After(L.t).text, inTag |-> After(L.t).inTag]]

StripTags(s) == StripTagsRange(s, 1, Len(s)).f.text

\* The table of strings.NewReplacer in stripHTML, in its order.
EmDash == <<"E2", "80", "94">>            \* U+2014

EnDash == <<"E2", "80", "93">>            \* U+2013

Ellipsis == <<"E2", "80", "A6">>          \* U+2026

LeftGuillemet == <<"C2", "AB">>           \* U+00AB

RightGuillemet == <<"C2", "BB">>          \* U+00BB

Entities ==
  << [old |-> <<"&", "n", "b", "s", "p", ";">>,           new |-> <<" ">>],
     [old |-> <<"&", "a", "m", "p", ";">>,                new |-> <<"&">>],
     [old |-> <<"&", "l", "t", ";">>,                     new |-> <<"<">>],
     [old |-> <<"&", "g", "t", ";">>,                     new |-> <<">">>],
     [old |-> <<"&", "q", "u", "o", "t", ";">>,           new |-> <<"\"">>],
     [old |-> <<"&", "#", "3", "9", ";">>,                new |-> <<"'">>],
     [old |-> <<"&", "a", "p", "o", "s", ";">>,           new |-> <<"'">>],
     [old |-> <<"&", "m", "d", "a", "s", "h", ";">>,      new |-> EmDash],
     [old |-> <<"&", "n", "d", "a", "s", "h", ";">>,      new |-> EnDash],
     [old |-> <<"&", "h", "e", "l", "l", "i", "p", ";">>, new |-> Ellipsis],
     [old |-> <<"&", "l", "a", "q", "u", "o", ";">>,      new |-> LeftGuillemet],
     [old |-> <<"&", "r", "a", "q", "u", "o", ";">>,      new |-> RightGuillemet],
     [old |-> <<"&", "#", "1", "6", "0", ";">>,           new |-> <<" ">>],
     [old |-> <<"&", "#", "8", "2", "0", "3", ";">>,      new |-> <<>>] >>

\* The entities of the table that start at offset p (0-based) of s.
EntityAt(s, p) ==
  IF p >= 0 /\ p < Len(s) /\ s[p + 1] = "&"
  THEN {e \in 1..Len(Entities) : HasPrefixAt(s, p, Entities[e].old)}
  ELSE {}

\* replacer.Replace: one left-to-right pass.  Every entity starts with "&"
\* and has no other "&", so two matches never overlap and the bytes written
\* for position p (1-based) depend on s alone: the replacement where an entity
\* starts, nothing inside an entity, the byte itself elsewhere.
DecodedAt(s, p) ==
  IF EntityAt(s, p - 1) # {} THEN Entities[Min(EntityAt(s, p - 1))].new
  ELSE IF \E k \in 1..7 : \E e \in EntityAt(s, p - 1 - k) : k < Len(Entities[e].old)
  THEN <<>>
  ELSE <<s[p]>>

\* The table applied a second time to what the first pass wrote: a chain of
\* strings.ReplaceAll calls starting with "&amp;" would behave so.
DecodeAgain(once) == Concat([p \in 1..Len(once) |-> DecodedAt(once, p)])

DecodeEntitiesTwice(s) == DecodeAgain(Concat([p \in 1..Len(s) |-> DecodedAt(s, p)]))

DecodeEntities(s) == Concat([p \in 1..Len(s) |-> DecodedAt(s, p)])

ZeroWidthSpace == <<"E2", "80", "8B">>    \* U+200B

SoftHyphen == <<"C2", "AD">>              \* U+00AD

\* The code points stripInvisibleUnicode drops, as UTF-8.
InvisibleRunes ==
  { <<"E2", "80", "8B">>,    \* U+200B zero-width space
    <<"E2", "80", "8C">>,    \* U+200C zero-width non-joiner
    <<"E2", "80", "8D">>,    \* U+200D zero-width joiner
    <<"E2", "80", "8E">>,    \* U+200E left-to-right mark
    <<"E2", "80", "8F">>,    \* U+200F right-to-left mark
    <<"CD", "8F">>,          \* U+034F combining grapheme joiner
    <<"EF", "BB", "BF">>,    \* U+FEFF byte-order mark
    <<"C2", "AD">> }         \* U+00AD soft hyphen

\* The byte at position p (1-based) belongs to one of the dropped runes.
InvisibleAt(s, p) ==
  /\ ~IsASCII(s[p])
  /\ \E r \in InvisibleRunes : \E k \in 0..(Len(r) - 1) : HasPrefixAt(s, p - 1 - k, r)

\* stripInvisibleUnicode without the case '\u00ad': the soft hyphen stays.
stripInvisibleUnicodeKeepingSoftHyphen(s) ==
  Concat([p \in 1..Len(s) |->
            IF /\ ~IsASCII(s[p])
               /\ \E r \in InvisibleRunes \ {SoftHyphen} :
                    \E k \in 0..(Len(r) - 1) : HasPrefixAt(s, p - 1 - k, r)
            THEN <<>> ELSE <<s[p]>>])

stripInvisibleUnicode(s) ==
  Concat([p \in 1..Len(s) |-> IF InvisibleAt(s, p) THEN <<>> ELSE <<s[p]>>])

IsBlank(c) == c = " " \/ c = "\t"

\* collapseSpaces with the test ch == '\t' left out: only runs of spaces
\* are collapsed.
collapseSpacesOnly(s) ==
  Concat([p \in 1..Len(s) |->
            IF s[p] = " "
            THEN IF p > 1 /\ s[p - 1] = " " THEN <<>> ELSE <<" ">>
            ELSE <<s[p]>>])

collapseSpaces(s) ==
  Concat([p \in 1..Len(s) |->
            IF IsBlank(s[p])
            THEN IF p > 1 /\ IsBlank(s[p - 1]) THEN <<>> ELSE <<" ">>
            ELSE <<s[p]>>])

\* The line loop of stripHTML: the lines appended to cleaned from line k on,
\* with blanks blank lines seen in a row so far.
RECURSIVE CleanLines(_, _, _)
CleanLines(ls, k, blanks) ==
  IF k > Len(ls) THEN <<>>
  ELSE LET l == collapseSpaces(TrimRight(ls[k], {" ", "\t", "\r"}))
       IN  IF l = <<>>
           THEN IF blanks + 1 <= 1
                THEN <<l>> \o CleanLines(ls, k + 1, blanks + 1)
                ELSE CleanLines(ls, k + 1, blanks + 1)
           ELSE <<l>> \o CleanLines(ls, k + 1, 0)

stripHTML(s) ==
  LET visible == stripInvisibleUnicode(DecodeEntities(StripTags(s)))
      cleaned == CleanLines(SplitLines(visible), 1, 0)
  IN  TrimSpace(Join(cleaned, <<"\n">>))

(***************************************************************************)
(* formatting.go: the inline renderer.  Each regexp pass replaces the      *)
(* leftmost match, then continues after it (ReplaceAllString).             *)
(***************************************************************************)
OpenTag(name) == <<"<">> \o name \o <<">">>

CloseTag(name) == <<"<", "/">> \o name \o <<">">>

\* The code-span regexp (a backtick, one or more bytes that are not backticks,
\* a backtick) matched at position p (1-based): the position of the closing
\* backtick, or 0 when there is no match at p.
CodeSpanEnd(s, p) ==
  LET ticks == {q \in (p + 1)..Len(s) : s[q] = Backtick}
  IN  IF s[p] = Backtick /\ ticks # {} /\ Min(ticks) >= p + 2 THEN Min(ticks) ELSE 0

RECURSIVE CodePassFrom(_, _)
CodePassFrom(s, from) ==
  LET starts == {p \in from..Len(s) : CodeSpanEnd(s, p) # 0}
  IN  IF starts = {} THEN SubSeq(s, from, Len(s))
      ELSE LET p == Min(starts)
               e == CodeSpanEnd(s, p)
           IN  SubSeq(s, from, p - 1)
               \o OpenTag(<<"c", "o", "d", "e">>)
               \o EscapeString(SubSeq(s, p + 1, e - 1))
               \o CloseTag(<<"c", "o", "d", "e">>)
               \o CodePassFrom(s, e + 1)

\* d(.+?)d matched at position p (1-based), d a delimiter: the position of
\* the closing delimiter, or 0.  The dot matches every byte but the line feed;
\* the lazy group takes the fewest bytes, at least one.
EmphasisEnd(s, p, d) ==
  LET ends == {q \in (p + Len(d) + 1)..Len(s) :
                 /\ HasPrefixAt(s, q - 1, d)
                 /\ \A k \in (p + Len(d))..(q - 1) : s[k] # "\n"}
  IN  IF HasPrefixAt(s, p - 1, d) /\ ends # {} THEN Min(ends) ELSE 0

RECURSIVE EmphasisPassFrom(_, _, _, _)
EmphasisPassFrom(s, from, d, tag) ==
  LET starts == {p \in from..Len(s) : EmphasisEnd(s, p, d) # 0}
  IN  IF starts = {} THEN SubSeq(s, from, Len(s))
      ELSE LET p == Min(starts)
               e == EmphasisEnd(s, p, d)
           IN  SubSeq(s, from, p - 1)
               \o OpenTag(tag) \o SubSeq(s, p + Len(d), e - 1) \o CloseTag(tag)
               \o EmphasisPassFrom(s, e + Len(d), d, tag)

\* The link regexp \[([^\]]+)\]\(([^)]+)\) matched at position p (1-based):
\* the positions of the closing bracket and of the closing parenthesis, or 0 and 0.
LinkEnds(s, p) ==
  LET rb == {q \in (p + 1)..Len(s) : s[q] = "]"}
      q == Min(rb)
      rp == {r \in (q + 2)..Len(s) : s[r] = ")"}
  IN  IF /\ s[p] = "["
         /\ rb # {} /\ q >= p + 2
         /\ q + 1 <= Len(s) /\ s[q + 1] = "("
         /\ rp # {} /\ Min(rp) >= q + 3
      THEN [text |-> q, url |-> Min(rp)]
      ELSE [text |-> 0, url |-> 0]

RECURSIVE LinkPassFrom(_, _)
LinkPassFrom(s, from) ==
  LET starts == {p \in from..Len(s) : LinkEnds(s, p).url # 0}
  IN  IF starts = {} THEN SubSeq(s, from, Len(s))
      ELSE LET p == Min(starts)
               m == LinkEnds(s, p)
           IN  SubSeq(s, from, p - 1)
               \o <<"<", "a", " ", "h", "r", "e", "f", "=", "\"">>
               \o SubSeq(s, m.text + 2, m.url - 1)
               \o <<"\"", ">">>
               \o SubSeq(s, p + 1, m.text - 1)
               \o <<"<", "/", "a", ">">>
               \o LinkPassFrom(s, m.url + 1)

Strong == <<"s", "t", "r", "o", "n", "g">>

Em == <<"e", "m">>

renderInline(s) ==
  LET code == CodePassFrom(s, 1)
      bold1 == EmphasisPassFrom(code, 1, <<"*", "*">>, Strong)
      bold2 == EmphasisPassFrom(bold1, 1, <<"_", "_">>, Strong)
      ital1 == EmphasisPassFrom(bold2, 1, <<"*">>, Em)
      ital2 == EmphasisPassFrom(ital1, 1, <<"_">>, Em)
  IN  LinkPassFrom(ital2, 1)

(***************************************************************************)
(* formatting.go: the block renderer.                                      *)
(***************************************************************************)
Fence == <<Backtick, Backtick, Backtick>>

Digits == {"0", "1", "2", "3", "4", "5", "6", "7", "8", "9"}

\* regexp ^[-*+] followed by a space
isUnorderedItem(line) == Len(line) >= 2 /\ line[1] \in {"-", "*", "+"} /\ line[2] = " "

\* The length of the match of ^\d+\. followed by a space in line, or 0.
OrderedPrefixLen(line) ==
  LET n == IF \A p \in 1..Len(line) : line[p] \in Digits THEN Len(line)
           ELSE Min({p \in 1..Len(line) : line[p] \notin Digits}) - 1
  IN  IF n >= 1 /\ n + 2 <= Len(line) /\ line[n + 1] = "." /\ line[n + 2] = " "
      THEN n + 2 ELSE 0

\* regexp ^\d+\. followed by a space
isOrderedItem(line) == OrderedPrefixLen(line) # 0

isQuoteLine(line) == HasPrefix(line, <<">", " ">>) \/ line = <<">">>

IsRule(line) ==
  TrimSpace(line) \in {<<"-", "-", "-">>, <<"*", "*", "*">>, <<"_", "_", "_">>}

\* The number of leading "#" of line.
HeadingLevel(line) ==
  IF \A p \in 1..Len(line) : line[p] = "#" THEN Len(line)
  ELSE Min({p \in 1..Len(line) : line[p] # "#"}) - 1

IsHeading(line) ==
  /\ HasPrefix(line, <<"#">>)
  /\ HeadingLevel(line) <= 6
  /\ (Len(line) = HeadingLevel(line) \/ line[HeadingLevel(line) + 1] = " ")

\* The condition on which the paragraph loop stops before line l.
EndsParagraph(l) ==
  \/ TrimSpace(l) = <<>>
  \/ HasPrefix(l, <<"#">>) \/ HasPrefix(l, Fence) \/ HasPrefix(l, <<">", " ">>)
  \/ isUnorderedItem(l) \/ isOrderedItem(l)
  \/ TrimSpace(l) = <<"-", "-", "-">> \/ TrimSpace(l) = <<"*", "*", "*">>

\* Where an inner loop for i < len(lines) && !stop(lines[i]) that starts at
\* line n ends: the index (0-based) of the first line at or after n whose
\* entry in stops is TRUE, or len(lines).  stops[k] is the test on line k - 1.
FirstFrom(stops, n) ==
  LET hits == {j \in n..(Len(stops) - 1) : stops[j + 1]}
  IN  IF hits = {} THEN Len(stops) ELSE Min(hits)

IsFenceLine(l) == HasPrefix(l, Fence)

NotQuoteLine(l) == ~isQuoteLine(l)

\* The list loop going on over "-" items only.
NotDashItem(l) == ~(isUnorderedItem(l) /\ l[1] = "-")

NotUnorderedItem(l) == ~isUnorderedItem(l)

NotOrderedItem(l) == ~isOrderedItem(l)

\* The code loop passing each line through renderInline instead of escaping it.
CodeLineInline(l) == renderInline(l) \o <<"\n">>

CodeLine(l) == EscapeString(l) \o <<"\n">>

\* The quote loop taking two markers off a line instead of one.
QuoteLineTwoMarkers(l) ==
  TrimPrefix(TrimPrefix(TrimPrefix(TrimPrefix(l, <<">">>), <<" ">>), <<">">>), <<" ">>)
  \o <<"\n">>

QuoteLine(l) == TrimPrefix(TrimPrefix(l, <<">">>), <<" ">>) \o <<"\n">>

UnorderedItem(l) ==
  OpenTag(<<"l", "i">>) \o renderInline(TrimSpace(Slice(l, 2, Len(l))))
  \o CloseTag(<<"l", "i">>) \o <<"\n">>

OrderedItem(l) ==
  OpenTag(<<"l", "i">>) \o renderInline(TrimSpace(Slice(l, OrderedPrefixLen(l), Len(l))))
  \o CloseTag(<<"l", "i">>) \o <<"\n">>

\* The entries a..b-1 (0-based) of a sequence of strings, concatenated: what
\* an inner loop writes for the lines it consumes.
MapLines(written, a, b) == Concat(SubSeq(written, a + 1, b))

\* bq.String() for the quote block that starts at line n (0-based): the
\* source of the recursive call.
QuoteSource(ls, n) ==
  MapLines([k \in 1..Len(ls) |-> QuoteLine(ls[k])], n,
           FirstFrom([k \in 1..Len(ls) |-> NotQuoteLine(ls[k])], n))

\* One pass of the loop for i < len(lines) of markdownToHTML, at line n
\* (0-based, n < len(lines)): the value of i after the pass, the text written
\* to out, and st = "hung" when the recursive call of the pass does not
\* return.  inner is the outcome of markdownToHTML(bq.String()), read only at
\* a quote block.
ScanPass(ls, n, inner) ==
  LET line == ls[n + 1]
  IN  IF HasPrefix(line, Fence) THEN
        LET lang == TrimSpace(TrimPrefix(line, Fence))
            j == FirstFrom([k \in 1..Len(ls) |-> IsFenceLine(ls[k])], n + 1)
            open == IF lang # <<>>
                    THEN <<"<", "p", "r", "e", ">", "<", "c", "o", "d", "e", " ",
                           "c", "l", "a", "s", "s", "=", "\"",
                           "l", "a", "n", "g", "u", "a", "g", "e", "-">>
                         \o EscapeString(lang) \o <<"\"", ">">>
                    ELSE <<"<", "p", "r", "e", ">", "<", "c", "o", "d", "e", ">">>
        IN  [next |-> j + 1, st |-> "returned",
             html |-> open \o MapLines([k \in 1..Len(ls) |-> CodeLine(ls[k])], n + 1, j)
                      \o <<"<", "/", "c", "o", "d", "e", ">", "<", "/", "p", "r", "e", ">", "\n">>]
      ELSE IF isQuoteLine(line) THEN
        LET j == FirstFrom([k \in 1..Len(ls) |-> NotQuoteLine(ls[k])], n)
        IN  [next |-> j, st |-> inner.st,
             html |-> <<"<", "b", "l", "o", "c", "k", "q", "u", "o", "t", "e", ">", "\n">>
                      \o inner.val
                      \o <<"<", "/", "b", "l", "o", "c", "k", "q", "u", "o", "t", "e", ">", "\n">>]
      ELSE IF IsRule(line) THEN
        [next |-> n + 1, st |-> "returned", html |-> <<"<", "h", "r", ">", "\n">>]
      ELSE IF IsHeading(line) THEN
        LET level == HeadingLevel(line)
            tag == <<"h", <<"1", "2", "3", "4", "5", "6">>[level]>>
        IN  [next |-> n + 1, st |-> "returned",
             html |-> OpenTag(tag) \o renderInline(TrimSpace(Slice(line, level, Len(line))))
                      \o CloseTag(tag) \o <<"\n">>]
      ELSE IF isUnorderedItem(line) THEN
        LET j == FirstFrom([k \in 1..Len(ls) |-> NotUnorderedItem(ls[k])], n)
        IN  [next |-> j, st |-> "returned",
             html |-> <<"<", "u", "l", ">", "\n">> \o MapLines([k \in 1..Len(ls) |-> UnorderedItem(ls[k])], n, j)
                      \o <<"<", "/", "u", "l", ">", "\n">>]
      ELSE IF isOrderedItem(line) THEN
        LET j == FirstFrom([k \in 1..Len(ls) |-> NotOrderedItem(ls[k])], n)
        IN  [next |-> j, st |-> "returned",
             html |-> <<"<", "o", "l", ">", "\n">> \o MapLines([k \in 1..Len(ls) |-> OrderedItem(ls[k])], n, j)
                      \o <<"<", "/", "o", "l", ">", "\n">>]
      ELSE IF TrimSpace(line) = <<>> THEN
        [next |-> n + 1, st |-> "returned", html |-> <<>>]
      ELSE
        LET j == FirstFrom([k \in 1..Len(ls) |-> EndsParagraph(ls[k])], n)
            para == Join([k \in 1..(j - n) |-> TrimSpace(ls[n + k])],
                         <<"<", "b", "r", ">", "\n">>)
        IN  [next |-> j, st |-> "returned",
             html |-> IF Len(para) > 0
                      THEN OpenTag(<<"p">>) \o renderInline(para) \o CloseTag(<<"p">>) \o <<"\n">>
                      ELSE <<>>]

\* The loop of markdownToHTML from line n on: the text it writes, or Hang.
\* A pass that returns and leaves i where it was repeats for ever, since it
\* reads only lines and i.
RECURSIVE ScanFrom(_, _)

\* out after the pass with outcome r and the passes after it with outcome rest.
ScanWritten(r, rest) == IF rest.st = "hung" THEN Hang ELSE Ok(r.html \o rest.val)

\* The loop after the pass at line n, which had outcome r.
ScanAfter(ls, n, r) ==
  IF r.st = "hung" \/ r.next = n THEN Hang
  ELSE ScanWritten(r, ScanFrom(ls, r.next))

ScanFrom(ls, n) ==
  IF n >= Len(ls) THEN Ok(<<>>)
  ELSE ScanAfter(ls, n, ScanPass(ls, n, IF isQuoteLine(ls[n + 1])
                                        THEN ScanFrom(SplitLines(QuoteSource(ls, n)), 0)
                                        ELSE Ok(<<>>)))

markdownToHTML(src) == ScanFrom(SplitLines(src), 0)

\* The pass at line n, with its recursive call.
LoopPass(ls, n) ==
  ScanPass(ls, n, IF isQuoteLine(ls[n + 1])
                  THEN markdownToHTML(QuoteSource(ls, n))
                  ELSE Ok(<<>>))

(***************************************************************************)
(* formatting.go: RenderBodyInner and RenderBody.                          *)
(***************************************************************************)
Formats == {"FormatText", "FormatMarkdown", "FormatHTML"}

\* ParseBodyFormat with the call of strings.TrimSpace left out.
ParseBodyFormatUntrimmed(s) ==
  IF ToLower(s) \in {<<"m", "d">>, <<"m", "a", "r", "k", "d", "o", "w", "n">>}
  THEN "FormatMarkdown"
  ELSE IF ToLower(s) = <<"h", "t", "m", "l">> THEN "FormatHTML"
  ELSE "FormatText"

ParseBodyFormat(s) ==
  IF ToLower(TrimSpace(s)) \in {<<"m", "d">>, <<"m", "a", "r", "k", "d", "o", "w", "n">>}
  THEN "FormatMarkdown"
  ELSE IF ToLower(TrimSpace(s)) = <<"h", "t", "m", "l">> THEN "FormatHTML"
  ELSE "FormatText"

RenderBodyInner(body, fmt) ==
  CASE fmt = "FormatHTML"     -> Ok(body)
    [] fmt = "FormatMarkdown" -> markdownToHTML(body)
    [] OTHER                  -> Ok(textToHTMLFragment(body))

\* RenderBody without the call of wrapEmailHTML: the fragment is returned bare.
RenderBodyBare(body, fmt) == RenderBodyInner(body, fmt)

RenderBody(body, fmt) ==
  LET inner == RenderBodyInner(body, fmt)
  IN  IF inner.st = "returned" THEN Ok(wrapEmailHTML(inner.val)) ELSE inner

(***************************************************************************)
(* mail.go: the ID cache and the operations that write and read it.        *)
(***************************************************************************)
\* The cache file: absent, or the JSON it holds (null, or a list of IDs).
NoFile == [file |-> "absent", ids |-> <<>>]

NullFile == [file |-> "null", ids |-> <<>>]

ListFile(ids) == [file |-> "list", ids |-> ids]

\* A []string: the nil slice, or a slice with the given elements.
NilSlice == [nil |-> TRUE, elems |-> <<>>]

SliceOf(elems) == [nil |-> FALSE, elems |-> elems]

\* json.Marshal writes null for the nil slice.
saveIDCache(ids) == IF ids.nil THEN NullFile ELSE ListFile(ids.elems)

LoadIDCache(file) == IF file.file = "list" THEN SliceOf(file.ids) ELSE NilSlice

\* appendIDCache without the test !existingSet[id].
appendIDCacheUnfiltered(file, newIDs) ==
  LET existing == LoadIDCache(file)
  IN  saveIDCache(IF existing.nil /\ newIDs = <<>> THEN NilSlice
                  ELSE SliceOf(existing.elems \o newIDs))

\* append(existing, id) for every new id that was not in the cache when the
\* call began (existingSet is not updated inside the loop).
appendIDCache(file, newIDs) ==
  LET existing == LoadIDCache(file)
      existingSet == {existing.elems[k] : k \in 1..Len(existing.elems)}
      added == SelectSeq(newIDs, LAMBDA id : id \notin existingSet)
  IN  saveIDCache(IF existing.nil /\ added = <<>> THEN NilSlice
                  ELSE SliceOf(existing.elems \o added))

(***************************************************************************)
(* mail.go: folders, recipients and the requests sent to Graph.            *)
(***************************************************************************)
\* One request to Graph: what is asked (kind), of which folder, message or
\* draft (target), with which parameters or body (content), and whether Graph
\* answered without an error (ok).
Request(kind, target, content, ok) ==
  [kind |-> kind, target |-> target, content |-> content, ok |-> ok]

Kinds(reqs) == [k \in 1..Len(reqs) |-> reqs[k].kind]

wellKnown ==
  { <<"i", "n", "b", "o", "x">>,
    <<"a", "r", "c", "h", "i", "v", "e">>,
    <<"d", "e", "l", "e", "t", "e", "d", "i", "t", "e", "m", "s">>,
    <<"d", "r", "a", "f", "t", "s">>,
    <<"s", "e", "n", "t", "i", "t", "e", "m", "s">>,
    <<"j", "u", "n", "k", "e", "m", "a", "i", "l">>,
    <<"o", "u", "t", "b", "o", "x">>,
    <<"r", "e", "c", "o", "v", "e", "r", "a", "b", "l", "e", "i", "t", "e", "m", "s", "d", "e", "l", "e", "t", "i", "o", "n", "s">> }

\* The folders of the mailbox, as Graph lists them.
UserFolders == << [id |-> <<"f", "1">>, displayName |-> <<"P", "r", "o", "j", "e", "c", "t", "s">>] >>

\* resolveFolderID: the ID, whether an error is returned, and whether the
\* folders were requested from Graph (asked).  listed tells whether that
\* request succeeds.
resolveFolderID(name, listed) ==
  LET lower == ToLower(SelectSeq(name, LAMBDA c : c # " "))
      found == {k \in 1..Len(UserFolders) : ToLower(UserFolders[k].displayName) = ToLower(name)}
  IN  IF lower \in wellKnown THEN [err |-> FALSE, id |-> lower, asked |-> FALSE]
      ELSE IF ~listed \/ found = {} THEN [err |-> TRUE, id |-> <<>>, asked |-> TRUE]
      ELSE [err |-> FALSE, id |-> UserFolders[Min(found)].id, asked |-> TRUE]

\* List: orderField
orderField(folder) ==
  IF ToLower(folder) = <<"s", "e", "n", "t", "i", "t", "e", "m", "s">>
  THEN <<"s", "e", "n", "t", "D", "a", "t", "e", "T", "i", "m", "e">>
  ELSE <<"r", "e", "c", "e", "i", "v", "e", "d", "D", "a", "t", "e", "T", "i", "m", "e">>

\* List: folderID
folderID(folder, listed) ==
  IF folder = <<>> THEN [err |-> FALSE, id |-> <<"i", "n", "b", "o", "x">>, asked |-> FALSE]
  ELSE resolveFolderID(folder, listed)

\* The requests of List, the folder option resolved to resolved: the
\* folders, when resolveFolderID asks for them, and then the messages of the
\* folder in the order orderBy.
ListRequests(resolved, orderBy, listed) ==
  (IF resolved.asked THEN <<Request("folders", <<>>, <<>>, listed)>> ELSE <<>>)
  \o (IF resolved.err THEN <<>> ELSE <<Request("list", resolved.id, orderBy, TRUE)>>)

\* strings.Split(addresses, ","), each piece trimmed, the empty pieces skipped.
parseRecipients(addresses) ==
  LET pieces == SplitLinesFrom(addresses, 1, {p \in 1..Len(addresses) : addresses[p] = ","})
  IN  SelectSeq([k \in 1..Len(pieces) |-> TrimSpace(pieces[k])], LAMBDA addr : addr # <<>>)

\* A field of the patch: not set, or set to a value.
Unset == [set |-> FALSE, val |-> <<>>]

SetTo(v) == [set |-> TRUE, val |-> v]

\* Reply, step 2: the message that carries htmlBody.
ReplyMessage(htmlBody) ==
  IF htmlBody.st # "returned" THEN htmlBody
  ELSE Ok([body |-> SetTo(htmlBody.val), cc |-> Unset, bcc |-> Unset])

\* Reply, step 2: the message patched onto the draft.
ReplyPatch(body, fmt) == ReplyMessage(RenderBody(body, fmt))

Separator == <<"\n", "<", "h", "r", ">", "\n">>

\* wrapEmailHTML(prepend + "\n<hr>\n" + quotedContent)
Splice(prepend, quotedContent) ==
  IF prepend.st # "returned" THEN prepend
  ELSE IF quotedContent.st # "returned" THEN quotedContent
  ELSE Ok(wrapEmailHTML(prepend.val \o Separator \o quotedContent.val))

\* Forward, step 2: the body of the patch.
combined(body, fmt, originalHTML) ==
  Splice(RenderBodyInner(body, fmt), ExtractBodyContent(originalHTML))

\* Forward, step 2: the message with CC and BCC, and with the body content
\* when withBody holds.
ForwardMessage(withBody, content, cc, bcc) ==
  IF withBody /\ content.st # "returned" THEN content
  ELSE Ok([body |-> IF withBody THEN SetTo(content.val) ELSE Unset,
           cc |-> IF cc # <<>> THEN SetTo(parseRecipients(cc)) ELSE Unset,
           bcc |-> IF bcc # <<>> THEN SetTo(parseRecipients(bcc)) ELSE Unset])

\* Forward, step 2, with the body patched whether or not body is empty.
ForwardPatchAlways(body, fmt, cc, bcc, originalHTML) ==
  ForwardMessage(TRUE, combined(body, fmt, originalHTML), cc, bcc)

\* Forward, step 2: the message patched onto the draft.
ForwardPatch(body, fmt, cc, bcc, originalHTML) ==
  ForwardMessage(body # <<>>, combined(body, fmt, originalHTML), cc, bcc)

\* The command goes on after every request, failed or not.
AfterRequestUnchecked(ok, next) == next

\* if err != nil { return fmt.Errorf(...) } after a request to Graph.
AfterRequest(ok, next) == IF ok THEN next ELSE "failed"

\* A reference is a string that strconv.Atoi parses (kind "index", its value n)
\* or any other string (kind "id").
IndexRef(n) == [kind |-> "index", n |-> n, id |-> ""]

IdRef(id) == [kind |-> "id", n |-> 0, id |-> id]

\* strconv.Atoi on a string of fewer than 19 bytes: an optional sign and
\* then decimal digits, at least one.
RECURSIVE DecimalValue(_)
DecimalValue(d) ==
  IF d = <<>> THEN 0
  ELSE 10 * DecimalValue(SubSeq(d, 1, Len(d) - 1))
       + (CHOOSE v \in 0..9 : <<"0", "1", "2", "3", "4", "5", "6", "7", "8", "9">>[v + 1] = d[Len(d)])

Atoi(s) ==
  LET d == IF s # <<>> /\ s[1] \in {"+", "-"} THEN Tail(s) ELSE s
  IN  IF d = <<>> \/ \E p \in 1..Len(d) : d[p] \notin Digits
      THEN [ok |-> FALSE, n |-> 0]
      ELSE [ok |-> TRUE, n |-> IF s[1] = "-" THEN 0 - DecimalValue(d) ELSE DecimalValue(d)]

\* The argument ref of resolveMessageID as the test of its first line reads it.
ParseRef(s) == IF Atoi(s).ok THEN IndexRef(Atoi(s).n) ELSE IdRef(s)

\* resolveMessageID counting the index from 0.
resolveMessageIDFromZero(file, ref) ==
  IF ref.kind = "index"
  THEN IF LoadIDCache(file).nil \/ ref.n < 0 \/ ref.n >= Len(LoadIDCache(file).elems)
       THEN [err |-> TRUE, id |-> ""]
       ELSE [err |-> FALSE, id |-> LoadIDCache(file).elems[ref.n + 1]]
  ELSE [err |-> FALSE, id |-> ref.id]

\* resolveMessageID: the message ID, or err = TRUE.
resolveMessageID(file, ref) ==
  LET ids == LoadIDCache(file)
  IN  IF ref.kind = "index"
      THEN IF ids.nil THEN [err |-> TRUE, id |-> ""]
           ELSE IF ref.n < 1 \/ ref.n > Len(ids.elems) THEN [err |-> TRUE, id |-> ""]
           ELSE [err |-> FALSE, id |-> ids.elems[ref.n]]
      ELSE [err |-> FALSE, id |-> ref.id]

(***************************************************************************)
(* Inputs.  A string argument is a concatenation of at most Max... of the  *)
(* fragments of its set.                                                   *)
(***************************************************************************)
SeqsUpTo(S, n) == UNION {[1..k -> S] : k \in 0..n}

Inputs(frags, n) == {Concat(fs) : fs \in SeqsUpTo(frags, n)}

DocFrags ==
  { <<"<", "b", "o", "d", "y">>, <<">">>, <<"<", "/", "b", "o", "d", "y", ">">>,
    <<"<", "/", "B", "O", "D", "Y", ">">>, <<"x">>, <<"#">>, KelvinSign, CapitalAStroke }

\* Pieces of a document with runes whose lower-case form has another length.
FoldFrags ==
  { <<"<", "b", "o", "d", "y", ">">>, <<"<", "/", "b", "o", "d", "y", ">">>, <<"x">>,
    KelvinSign, CapitalIDot }

PlainFrags == { <<"a">>, <<"b">>, <<" ">>, <<"\"">>, <<"\n">>, <<"\n", "\n">> }

TextFrags ==
  { <<"a">>, <<" ">>, <<"\t">>, <<"\r">>, <<"\f">>, <<"\n">>, <<"\n", "\n">>,
    <<"<">>, <<">">>, <<"&">>, <<"\"">> }

ReduceFrags ==
  { <<"a">>, <<"<">>, <<">">>, <<"&">>, <<"a", "m", "p", ";">>, <<"l", "t", ";">>,
    <<"#", "8", "2", "0", "3", ";">>, ZeroWidthSpace, SoftHyphen }

Amp == <<"&", "a", "m", "p", ";">>

\* Every entity of the table, alone and with its "&" written as "&amp;", and
\* an entity that is not in the table.
EntityInputs ==
  {Entities[e].old : e \in 1..Len(Entities)}
    \cup {Amp \o Tail(Entities[e].old) : e \in 1..Len(Entities)}
    \cup {<<"&", "c", "o", "p", "y", ";">>}

InlineFrags == { <<Backtick>>, <<"*", "*">>, <<"a">>, <<"_">>, <<" ">> }

\* Pieces of a plain text that holds characters of the Markdown syntax.
MarkFrags ==
  { <<"#">>, <<"*">>, <<"_">>, <<Backtick>>, <<"[">>, <<">">>, <<"a">>, <<" ">>, <<"\n">> }

\* Pieces of a line with a link: the text part of a link, bytes of a URL,
\* the closing parenthesis, and delimiters.
LinkFrags ==
  { <<"[", "a", "]", "(">>, <<"u">>, <<"_">>, <<"*">>, <<")">>, <<Backtick>> }

MdFrags ==
  { <<"#">>, <<" ">>, <<"a">>, <<"\n">>, <<">", " ">>, <<"-", " ">>, Fence }

\* Whole lines of a Markdown source: list items, a blank line, plain text,
\* rules, quoted lines and a fence.
BlockLines ==
  { <<"-", " ", "a">>,
    <<"-", " ", "b">>,
    <<"*", " ", "c">>,
    <<"1", ".", " ", "a">>,
    <<>>,
    <<"N", "o", "t", " ", "a", " ", "l", "i", "s", "t">>,
    <<"-", "-", "-">>,
    <<"_", "_", "_">>,
    <<">", " ", "n", "e", "s", "t", "e", "d">>,
    <<">", " ", ">", " ", "n", "e", "s", "t", "e", "d">>,
    <<">", "t", "e", "x", "t">>,
    <<">">>,
    Fence }

\* A source of at most MaxBlockLines of these lines.
BlockInputs == {Join(ls, <<"\n">>) : ls \in SeqsUpTo(BlockLines, MaxBlockLines)}

\* Whole lines of a source with fenced code: fences without and with a tag,
\* and lines that are Markdown outside a code block.
FenceLines ==
  { Fence, Fence \o <<"j", "s">>, Fence \o <<" ">>,
    <<"-", " ", "a">>, <<">", " ", "a", "<", "b">>, <<"*", "*", "a", "*", "*">>, <<>> }

FenceInputs == {Join(ls, <<"\n">>) : ls \in SeqsUpTo(FenceLines, MaxFenceLines)}

\* Pieces of a value of the flag --format.
SelectorFrags ==
  { <<"m", "d">>, <<"M", "a", "r", "k", "D", "o", "w", "n">>, <<"m", "a", "r">>, KelvinSign,
    <<"d", "o", "w", "n">>, <<"H", "t", "M", "l">>, <<" ">>, <<"\n">>, <<"x">> }

Messages == {"m1", "m2", "m3"}

\* Values of the flag --ref: integers in and out of the range of the cache,
\* with and without a sign, and strings that are no integers.
Refs ==
  { <<"0">>, <<"1">>, <<"2">>, <<"3">>, <<"4">>, <<"-", "1">>, <<"+", "1">>, <<"0", "1">>,
    <<"1", "2">>, <<"m">>, <<"1", "m">>, <<"-">>, <<>> }

\* Values of the option --folder: none, sentitems in two spellings, and a
\* folder of the mailbox.
Folders ==
  { <<>>, <<"S", "e", "n", "t", "I", "t", "e", "m", "s">>,
    <<"S", "e", "n", "t", " ", "I", "t", "e", "m", "s">>, <<"p", "r", "o", "j", "e", "c", "t", "s">> }

\* Values of the flags of mail reply and mail forward.
MailRefs == { <<"m">>, <<"1">> }

Tos == { <<>>, <<"t">> }

Ccs == { <<>>, <<"c", ",", " ", "d">> }

Bccs == { <<>>, <<"b">> }

Bodies == { <<>>, <<"h", "i">>, <<"#", " ", "h">> }

\* A complete HTML document with the body content c.
Document(c) ==
  OpenTag(<<"h", "t", "m", "l">>) \o OpenTag(<<"b", "o", "d", "y">>) \o c
  \o CloseTag(<<"b", "o", "d", "y">>) \o CloseTag(<<"h", "t", "m", "l">>)

\* Contents of the body of the original message.
Contents ==
  { <<"x">>, CapitalIDot \o <<"x">>,
    CapitalAStroke \o CapitalAStroke \o CapitalAStroke \o CapitalAStroke
    \o CapitalAStroke \o CapitalAStroke \o CapitalAStroke }

\* What Graph returns as the body of the forward draft: nothing, or a
\* complete document.
Originals == { <<>> } \cup { Document(c) : c \in Contents }

\* What Graph returns for one request, after the client-side filter: at most
\* MaxCount messages, none of them twice.
Responses ==
  {r \in SeqsUpTo(Messages, MaxCount) : \A j, k \in 1..Len(r) : j # k => r[j] # r[k]}

\* The arguments of Reply and Forward beside body and format, and their local
\* variables: messageID, draftID, and originalHTML once the draft was read.
NoLocals ==
  [to |-> <<>>, cc |-> <<>>, bcc |-> <<>>, messageID |-> <<>>, draftID |-> <<>>,
   originalHTML |-> <<>>]

(***************************************************************************)
(* The state machine.  A behaviour is one call of a conversion function on *)
(* one input, or a sequence of List, Search and Read commands.             *)
(***************************************************************************)
Idle ==
  /\ op = "none"
  /\ status = "idle"
  /\ format = "FormatText"
  /\ result = <<>>
  /\ lines = <<>>
  /\ i = 0
  /\ out = <<>>
  /\ cache = NoFile
  /\ shown = <<>>
  /\ page = 0
  /\ text = <<>>
  /\ requests = <<>>
  /\ locals = NoLocals
  /\ stderr = <<>>

\* The call named name ends with outcome r.
Return(name, r) ==
  /\ op' = name
  /\ status' = r.st
  /\ result' = r.val

CallExtractBodyContent ==
  /\ status = "idle"
  /\ Return("ExtractBodyContent", ExtractBodyContent(input))
  /\ UNCHANGED <<input, format, lines, i, out, cache, shown, page, text, requests, locals, stderr>>

\* ExtractBodyContent(wrapEmailHTML(input))
CallExtractWrapped ==
  /\ status = "idle"
  /\ Return("ExtractWrapped", ExtractBodyContent(wrapEmailHTML(input)))
  /\ UNCHANGED <<input, format, lines, i, out, cache, shown, page, text, requests, locals, stderr>>

CallRenderBody ==
  /\ status = "idle"
  /\ \E fmt \in Formats :
       /\ format' = fmt
       /\ Return("RenderBody", RenderBody(input, fmt))
  /\ UNCHANGED <<input, lines, i, out, cache, shown, page, text, requests, locals, stderr>>

\* stripHTML(RenderBody(input, FormatText))
CallStripRendered ==
  /\ status = "idle"
  /\ Return("StripRendered", Ok(stripHTML(RenderBody(input, "FormatText").val)))
  /\ UNCHANGED <<input, format, lines, i, out, cache, shown, page, text, requests, locals, stderr>>

CallTextToHTMLFragment ==
  /\ status = "idle"
  /\ Return("textToHTMLFragment", Ok(textToHTMLFragment(input)))
  /\ UNCHANGED <<input, format, lines, i, out, cache, shown, page, text, requests, locals, stderr>>

CallStripHTML ==
  /\ status = "idle"
  /\ Return("stripHTML", Ok(stripHTML(input)))
  /\ UNCHANGED <<input, format, lines, i, out, cache, shown, page, text, requests, locals, stderr>>

\* stripHTML(input), step by step: the tag loop, ...
StripBegin ==
  /\ status = "idle"
  /\ op' = "stripHTML"
  /\ status' = "tags"
  /\ text' = StripTags(input)
  /\ UNCHANGED <<input, format, result, lines, i, out, cache, shown, page, requests, locals, stderr>>

\* ... replacer.Replace, ...
StripDecode ==
  /\ status = "tags"
  /\ status' = "decoded"
  /\ text' = DecodeEntities(text)
  /\ UNCHANGED <<op, input, format, result, lines, i, out, cache, shown, page, requests, locals, stderr>>

\* ... stripInvisibleUnicode, ...
StripInvisible ==
  /\ status = "decoded"
  /\ status' = "visible"
  /\ text' = stripInvisibleUnicode(text)
  /\ UNCHANGED <<op, input, format, result, lines, i, out, cache, shown, page, requests, locals, stderr>>

\* ... and the line loop with the final TrimSpace.
StripReturn ==
  /\ status = "visible"
  /\ status' = "returned"
  /\ result' = TrimSpace(Join(CleanLines(SplitLines(text), 1, 0), <<"\n">>))
  /\ UNCHANGED <<op, input, format, lines, i, out, cache, shown, page, text, requests, locals, stderr>>

CallRenderInline ==
  /\ status = "idle"
  /\ Return("renderInline", Ok(renderInline(input)))
  /\ UNCHANGED <<input, format, lines, i, out, cache, shown, page, text, requests, locals, stderr>>

CallParseBodyFormat ==
  /\ status = "idle"
  /\ op' = "ParseBodyFormat"
  /\ status' = "returned"
  /\ format' = ParseBodyFormat(input)
  /\ UNCHANGED <<input, result, lines, i, out, cache, shown, page, text, requests, locals, stderr>>

\* markdownToHTML(input), pass by pass.
MdBegin ==
  /\ status = "idle"
  /\ op' = "markdownToHTML"
  /\ status' = "scan"
  /\ lines' = SplitLines(input)
  /\ i' = 0
  /\ out' = <<>>
  /\ UNCHANGED <<input, format, result, cache, shown, page, text, requests, locals, stderr>>

\* The loop's variables after a pass with outcome r.
MdPassed(r) ==
  /\ status' = IF r.st = "hung" THEN "hung" ELSE "scan"
  /\ i' = IF r.st = "hung" THEN i ELSE r.next
  /\ out' = IF r.st = "hung" THEN out ELSE out \o r.html

\* One pass of the loop.  A pass whose recursive call does not return ends
\* the behaviour in "hung"; a pass that changes nothing is a stuttering step
\* and leaves the loop where it was.
MdPass ==
  /\ status = "scan"
  /\ i < Len(lines)
  /\ MdPassed(LoopPass(lines, i))
  /\ UNCHANGED <<op, input, format, result, lines, cache, shown, page, text, requests, locals, stderr>>

MdReturn ==
  /\ status = "scan"
  /\ i >= Len(lines)
  /\ status' = "returned"
  /\ result' = out
  /\ UNCHANGED <<op, input, format, lines, i, out, cache, shown, page, text, requests, locals, stderr>>

\* mail list --page=p --folder=folder, Graph answering with the messages
\* resp; listed tells whether Graph lists the folders when asked.  When the
\* folder is not resolved List returns the error ("failed") and nothing else
\* happens.
List(p, folder, listed, resp) ==
  LET resolved == folderID(folder, listed)
  IN  /\ op' = "List"
      /\ requests' = ListRequests(resolved, orderField(folder), listed)
      /\ IF resolved.err
         THEN /\ status' = "failed"
              /\ UNCHANGED <<cache, shown, page>>
         ELSE /\ status' = "idle"
              /\ cache' = IF p = 1 THEN saveIDCache(SliceOf(resp))
                          ELSE appendIDCache(cache, resp)
              /\ shown' = resp
              /\ page' = p
      /\ input' = folder
      /\ result' = <<>>
      /\ UNCHANGED <<format, lines, i, out, text, locals, stderr>>

\* mail search, Graph answering with the messages resp.
Search(resp) ==
  /\ op' = "Search"
  /\ cache' = saveIDCache(SliceOf(resp))
  /\ shown' = resp
  /\ page' = 0
  /\ status' = "idle"
  /\ input' = <<>>
  /\ result' = <<>>
  /\ requests' = <<Request("search", <<>>, <<>>, TRUE)>>
  /\ UNCHANGED <<format, lines, i, out, text, locals, stderr>>

\* mail read --ref=ref: "failed" when resolveMessageID returns an error and
\* Read returns it, "requested" when Read goes on to the Graph request for
\* the message with the ID in result.
Read(ref) ==
  /\ op' = "Read"
  /\ input' = ref
  /\ status' = IF resolveMessageID(cache, ParseRef(ref)).err THEN "failed" ELSE "requested"
  /\ result' = resolveMessageID(cache, ParseRef(ref)).id
  /\ requests' = IF resolveMessageID(cache, ParseRef(ref)).err THEN <<>>
                 ELSE <<Request("read", resolveMessageID(cache, ParseRef(ref)).id, <<>>, TRUE)>>
  /\ UNCHANGED <<format, lines, i, out, cache, shown, page, text, locals, stderr>>

\* mail reply: the checks before the first request.
Reply(ref, body, fmt) ==
  /\ status = "idle"
  /\ op' = "Reply"
  /\ input' = body
  /\ format' = fmt
  /\ requests' = <<>>
  /\ IF body = <<>> \/ resolveMessageID(cache, ParseRef(ref)).err
     THEN status' = "failed" /\ locals' = NoLocals
     ELSE /\ status' = "resolved"
          /\ locals' = [NoLocals EXCEPT !.messageID = resolveMessageID(cache, ParseRef(ref)).id]
  /\ UNCHANGED <<result, lines, i, out, cache, shown, page, text, stderr>>

\* mail forward: the checks before the first request.
Forward(ref, to, cc, bcc, body, fmt) ==
  /\ status = "idle"
  /\ op' = "Forward"
  /\ input' = body
  /\ format' = fmt
  /\ requests' = <<>>
  /\ IF to = <<>> \/ resolveMessageID(cache, ParseRef(ref)).err
     THEN status' = "failed" /\ locals' = NoLocals
     ELSE /\ status' = "resolved"
          /\ locals' = [NoLocals EXCEPT !.messageID = resolveMessageID(cache, ParseRef(ref)).id,
                                        !.to = to, !.cc = cc, !.bcc = bcc]
  /\ UNCHANGED <<result, lines, i, out, cache, shown, page, text, stderr>>

\* Step 1 of Reply: CreateReply().Post
CreateReply ==
  /\ op = "Reply"
  /\ status = "resolved"
  /\ \E ok \in BOOLEAN :
       /\ requests' = Append(requests, Request("create", locals.messageID, <<>>, ok))
       /\ status' = AfterRequest(ok, "created")
       /\ locals' = IF ok THEN [locals EXCEPT !.draftID = <<"d">>] ELSE locals
  /\ UNCHANGED <<op, input, format, result, lines, i, out, cache, shown, page, text, stderr>>

\* Step 1 of Forward: CreateForward().Post with the recipients
CreateForward ==
  /\ op = "Forward"
  /\ status = "resolved"
  /\ \E ok \in BOOLEAN :
       /\ requests' = Append(requests, Request("create", locals.messageID,
                                               parseRecipients(locals.to), ok))
       /\ status' = AfterRequest(ok, "created")
       /\ locals' = IF ok THEN [locals EXCEPT !.draftID = <<"d">>] ELSE locals
  /\ UNCHANGED <<op, input, format, result, lines, i, out, cache, shown, page, text, stderr>>

\* Forward with a body: the draft's body is read, Graph answering with html.
GetDraft ==
  /\ op = "Forward"
  /\ status = "created"
  /\ input # <<>>
  /\ \E ok \in BOOLEAN : \E html \in Originals :
       /\ requests' = Append(requests, Request("get", locals.draftID, <<"b", "o", "d", "y">>, ok))
       /\ status' = AfterRequest(ok, "read")
       /\ locals' = IF ok THEN [locals EXCEPT !.originalHTML = html] ELSE locals
  /\ UNCHANGED <<op, input, format, result, lines, i, out, cache, shown, page, text, stderr>>

\* The draft is patched with the message patch; when the rendering of the
\* body did not return, nothing is sent.
PatchDraft(patch) ==
  /\ IF patch.st # "returned"
     THEN status' = patch.st /\ UNCHANGED requests
     ELSE \E ok \in BOOLEAN :
            /\ requests' = Append(requests, Request("patch", locals.draftID, patch.val, ok))
            /\ status' = AfterRequest(ok, "patched")
  /\ UNCHANGED <<op, input, format, result, lines, i, out, cache, shown, page, text, locals,
                 stderr>>

\* Step 2 of Reply
PatchReply ==
  /\ op = "Reply"
  /\ status = "created"
  /\ PatchDraft(ReplyPatch(input, format))

\* Step 2 of Forward
PatchForward ==
  /\ op = "Forward"
  /\ status = "read" \/ (status = "created" /\ input = <<>>)
  /\ PatchDraft(ForwardPatch(input, format, locals.cc, locals.bcc, locals.originalHTML))

\* The line printed when the command has sent the message.
Sent(command, to) ==
  IF command = "Reply" THEN <<"R", "e", "p", "l", "y", " ", "s", "e", "n", "t", "\n">>
  ELSE <<"M", "e", "s", "s", "a", "g", "e", " ", "f", "o", "r", "w", "a", "r", "d", "e", "d", " ", "t", "o", " ">> \o to \o <<"\n">>

\* Step 3 of Reply and Forward: Send().Post, and the line on standard error.
SendDraft ==
  /\ op \in {"Reply", "Forward"}
  /\ status = "patched"
  /\ \E ok \in BOOLEAN :
       /\ requests' = Append(requests, Request("send", locals.draftID, <<>>, ok))
       /\ status' = AfterRequest(ok, "returned")
       /\ stderr' = IF AfterRequest(ok, "returned") = "returned"
                    THEN Append(stderr, Sent(op, locals.to)) ELSE stderr
  /\ UNCHANGED <<op, input, format, result, lines, i, out, cache, shown, page, text, locals>>

InitDoc == Idle /\ input \in Inputs(DocFrags, MaxDocFrags)

NextDoc == CallExtractBodyContent \/ CallExtractWrapped \/ CallRenderBody

SpecDoc == InitDoc /\ [][NextDoc]_vars

InitFold == Idle /\ input \in Inputs(FoldFrags, MaxFoldFrags)

SpecFold == InitFold /\ [][CallExtractBodyContent]_vars

InitPlain == Idle /\ input \in Inputs(PlainFrags, MaxPlainFrags)

NextPlain == CallStripRendered

SpecPlain == InitPlain /\ [][NextPlain]_vars

InitText == Idle /\ input \in Inputs(TextFrags, MaxTextFrags)

NextText == CallTextToHTMLFragment \/ CallStripHTML

SpecText == InitText /\ [][NextText]_vars

InitMark == Idle /\ input \in Inputs(MarkFrags, MaxMarkFrags)

SpecMark == InitMark /\ [][CallTextToHTMLFragment]_vars

InitReduce == Idle /\ input \in Inputs(ReduceFrags, MaxReduceFrags) \cup EntityInputs

NextReduce == StripBegin \/ StripDecode \/ StripInvisible \/ StripReturn

SpecReduce == InitReduce /\ [][NextReduce]_vars

InitInline == Idle /\ input \in Inputs(InlineFrags, MaxInlineFrags)

NextInline == CallRenderInline

SpecInline == InitInline /\ [][NextInline]_vars

InitLink == Idle /\ input \in Inputs(LinkFrags, MaxLinkFrags)

SpecLink == InitLink /\ [][NextInline]_vars

InitMd == Idle /\ input \in Inputs(MdFrags, MaxMdFrags)

NextMd == MdBegin \/ MdPass \/ MdReturn

SpecMd == InitMd /\ [][NextMd]_vars

InitBlock == Idle /\ input \in BlockInputs

SpecBlock == InitBlock /\ [][NextMd]_vars

InitFence == Idle /\ input \in FenceInputs

SpecFence == InitFence /\ [][NextMd]_vars

InitFormat == Idle /\ input \in Inputs(SelectorFrags, MaxSelectorFrags)

SpecFormat == InitFormat /\ [][CallParseBodyFormat]_vars

InitCache == Idle /\ input = <<>>

\* Whether Graph lists the folders: either, when List asks for them.
Answers(folder) == IF folderID(folder, TRUE).asked THEN BOOLEAN ELSE {TRUE}

InitMail == Idle /\ input = <<>>

NextMail ==
  \/ \E ref \in MailRefs : \E body \in Bodies : \E fmt \in Formats : Reply(ref, body, fmt)
  \/ \E ref \in MailRefs : \E to \in Tos : \E cc \in Ccs : \E bcc \in Bccs :
       \E body \in Bodies : \E fmt \in Formats : Forward(ref, to, cc, bcc, body, fmt)
  \/ CreateReply
  \/ CreateForward
  \/ GetDraft
  \/ PatchReply
  \/ PatchForward
  \/ SendDraft

SpecMail == InitMail /\ [][NextMail]_vars

\* mail list with the option --folder, mail search and mail read
NextFolder ==
  \/ \E p \in 1..MaxPage : \E folder \in Folders : \E listed \in Answers(folder) :
       \E resp \in Responses : List(p, folder, listed, resp)
  \/ \E resp \in Responses : Search(resp)
  \/ \E ref \in Refs : Read(ref)

SpecFolder == InitCache /\ [][NextFolder]_vars

\* mail list of the inbox (no option --folder), mail search and mail read
NextCache ==
  \/ \E p \in 1..MaxPage : \E resp \in Responses : List(p, <<>>, TRUE, resp)
  \/ \E resp \in Responses : Search(resp)
  \/ \E ref \in Refs : Read(ref)

SpecCache == InitCache /\ [][NextCache]_vars

Init ==
  \/ InitDoc \/ InitFold \/ InitPlain \/ InitText \/ InitMark \/ InitReduce \/ InitInline \/ InitLink \/ InitMd
  \/ InitBlock \/ InitFence \/ InitFormat \/ InitCache

Next ==
  \/ NextDoc \/ NextPlain \/ NextText \/ NextReduce \/ NextInline \/ NextMd
  \/ CallParseBodyFormat \/ NextMail \/ NextFolder \/ NextCache

Spec == Init /\ [][Next]_vars
(***************************************************************************)
(* Properties of the document wrapper, the extractor and RenderBody.       *)
(***************************************************************************)
\* The number of occurrences of pat in s.
CountOf(s, pat) == Cardinality({p \in 0..(Len(s) - Len(pat)) : HasPrefixAt(s, p, pat)})

DocType == <<"<", "!", "D", "O", "C", "T", "Y", "P", "E", " ", "h", "t", "m", "l", ">">>

HtmlOpen == <<"<", "h", "t", "m", "l">>

HeadOpen == <<"<", "h", "e", "a", "d">>

BodyOpen == <<"<", "b", "o", "d", "y">>

\* The head element wrapEmailHTML writes, stylesheet included.
HeadElement ==
  << "<", "h", "e", "a", "d", ">", "<", "m", "e", "t", "a", " ",
     "c", "h", "a", "r", "s", "e", "t", "=", "\"", "U", "T", "F", "-", "8", "\"", ">",
     "<", "s", "t", "y", "l", "e", ">" >>
  \o emailCSS
  \o << "<", "/", "s", "t", "y", "l", "e", ">", "<", "/", "h", "e", "a", "d", ">" >>

C3_ExtractTotal ==
  (op = "ExtractBodyContent") => status = "returned"

C2_EveryPassConsumes ==
  (status = "scan" /\ i < Len(lines)) =>
    /\ LoopPass(lines, i).st = "returned"
    /\ LoopPass(lines, i).next > i

\* A line of "#" bytes followed at once by a byte that is not a space.
IsHashText(line) ==
  /\ HasPrefix(line, <<"#">>)
  /\ HeadingLevel(line) < Len(line)
  /\ line[HeadingLevel(line) + 1] # " "

\* C6 as stated: the pass at a line of "#" followed at once by a non-space
\* byte renders the line as a paragraph, a <p> element holding its text, and
\* the pass at the line "# a" writes exactly <h1>a</h1>.
C6_HeadingBoundary ==
  (status = "scan" /\ i < Len(lines)) =>
    LET line == lines[i + 1]
        r == LoopPass(lines, i)
    IN  /\ IsHashText(line) =>
             /\ r.st = "returned"
             /\ HasPrefix(r.html, OpenTag(<<"p">>))
        /\ line = <<"#", " ", "a">> =>
             r.html = <<"<", "h", "1", ">", "a", "<", "/", "h", "1", ">", "\n">>

\* s is one code span: a backtick, one or more bytes that are not backticks,
\* a backtick.
IsCodeSpan(s) ==
  /\ Len(s) >= 3
  /\ s[1] = Backtick
  /\ s[Len(s)] = Backtick
  /\ \A p \in 2..(Len(s) - 1) : s[p] # Backtick

\* C4 as stated: renderInline renders a code span as <code> around the
\* escaped content of the span, and no later pass changes what is inside.
C4_CodeSpanProtected ==
  (op = "renderInline" /\ IsCodeSpan(input)) =>
    result = OpenTag(<<"c", "o", "d", "e">>)
             \o EscapeString(SubSeq(input, 2, Len(input) - 1))
             \o CloseTag(<<"c", "o", "d", "e">>)

(***************************************************************************)
(* Properties of the plain-text renderer and the reducer.                  *)
(***************************************************************************)
\* The paragraphs of a text: its pieces between runs of two or more line
\* feeds that are not empty after trimming, each with its lines normalized as
\* the reducer normalizes lines.
ParagraphsOf(t) ==
  LET pieces == SplitParagraphs(t)
      trimmed == [k \in 1..Len(pieces) |-> TrimSpace(pieces[k])]
      kept == SelectSeq(trimmed, LAMBDA p : p # <<>>)
  IN  [k \in 1..Len(kept) |-> Join(CleanLines(SplitLines(kept[k]), 1, 0), <<"\n">>)]

\* C5 as stated: stripHTML(RenderBody(t, FormatText)) consists of the
\* paragraphs of t, in order, separated as paragraphs, and of nothing else,
\* up to the normalization of white space.
C5_RoundTripParagraphs ==
  (op = "StripRendered") => ParagraphsOf(result) = ParagraphsOf(input)

\* The markup textToHTMLFragment inserts.
FragmentMarkup ==
  { <<"<", "p", ">">>, <<"<", "/", "p", ">">>, <<"<", "b", "r", ">">> }

\* The escaped forms html.EscapeString writes.
EscapedForms ==
  { <<"&", "l", "t", ";">>, <<"&", "g", "t", ";">>, <<"&", "a", "m", "p", ";">>,
    <<"&", "#", "3", "9", ";">>, <<"&", "#", "3", "4", ";">> }

\* C8: in the output of textToHTMLFragment every "<" begins and every ">"
\* ends a <p>, </p> or <br>, every "&" begins an escaped form, and the output
\* holds one escaped form for each "<", ">", "&" and double quote of the input.
C8_EscapingSafety ==
  (op = "textToHTMLFragment") =>
    /\ \A p \in 1..Len(result) :
         /\ result[p] = "<" => \E m \in FragmentMarkup : HasPrefixAt(result, p - 1, m)
         /\ result[p] = ">" => \E m \in FragmentMarkup : HasPrefixAt(result, p - Len(m), m)
         /\ result[p] = "&" => \E e \in EscapedForms : HasPrefixAt(result, p - 1, e)
    /\ CountOf(result, <<"&", "l", "t", ";">>) = CountOf(input, <<"<">>)
    /\ CountOf(result, <<"&", "g", "t", ";">>) = CountOf(input, <<">">>)
    /\ CountOf(result, <<"&", "a", "m", "p", ";">>) = CountOf(input, <<"&">>)
    /\ CountOf(result, <<"&", "#", "3", "4", ";">>) = CountOf(input, <<"\"">>)

\* C8: a text of the three characters and a double quote is rendered as one
\* paragraph of escaped forms.
C8_Witness ==
  /\ op = "textToHTMLFragment"
  /\ input = <<"<", ">", "&", "\"">>
  /\ result = <<"<", "p", ">", "&", "l", "t", ";", "&", "g", "t", ";",
                "&", "a", "m", "p", ";", "&", "#", "3", "4", ";", "<", "/", "p", ">", "\n">>

\* C10: the output of stripHTML has no two blank (empty) lines in a row, no
\* blank line at its start or end, no line that ends in a space, tab or
\* carriage return, and no two spaces or tabs in a row.
C10_Whitespace ==
  (op = "stripHTML") =>
    /\ \A p \in 1..(Len(result) - 2) :
         ~(result[p] = "\n" /\ result[p + 1] = "\n" /\ result[p + 2] = "\n")
    /\ result # <<>> => (result[1] # "\n" /\ result[Len(result)] # "\n")
    /\ \A p \in 1..Len(result) :
         result[p] \in {" ", "\t", "\r"} => (p < Len(result) /\ result[p + 1] # "\n")
    /\ \A p \in 1..(Len(result) - 1) : ~(IsBlank(result[p]) /\ IsBlank(result[p + 1]))

\* C10: three line feeds in a row are reduced to one blank line.
C10_Witness ==
  /\ op = "stripHTML"
  /\ input = <<"a", "\n", "\n", "\n", "a">>
  /\ result = <<"a", "\n", "\n", "a">>

ZeroWidthEntity == <<"&", "#", "8", "2", "0", "3", ";">>

C11_NoInvisibleOutput ==
  (op = "stripHTML" /\ status = "returned") =>
    /\ \A r \in InvisibleRunes : CountOf(result, r) = 0
    /\ \A r \in InvisibleRunes \cup {ZeroWidthEntity} :
         input = <<"a">> \o r \o <<"a">> => result = <<"a", "a">>

C11_Witness ==
  /\ op = "stripHTML"
  /\ status = "returned"
  /\ input = <<"a">> \o ZeroWidthSpace \o <<"a">>
  /\ result = <<"a", "a">>

(***************************************************************************)
(* C12.  stripHTML decodes the entities of its table in one pass from left *)
(* to right: at each offset where an entity of the table starts, its       *)
(* replacement is written and the pass goes on after the entity, so what   *)
(* was written is not decoded again (&amp;lt; gives &lt;); every other     *)
(* byte, and so every entity outside the table, is written unchanged.      *)
(***************************************************************************)
RECURSIVE ReplaceFrom(_, _)
ReplaceFrom(s, p) ==
  IF p >= Len(s) THEN <<>>
  ELSE IF EntityAt(s, p) = {} THEN <<s[p + 1]>> \o ReplaceFrom(s, p + 1)
  ELSE Entities[Min(EntityAt(s, p))].new
         \o ReplaceFrom(s, p + Len(Entities[Min(EntityAt(s, p))].old))

C12_DecodeOnce ==
  (op = "stripHTML" /\ status = "decoded") =>
    /\ text = ReplaceFrom(StripTags(input), 0)
    /\ input = Amp => text = <<"&">>
    /\ input = Amp \o <<"l", "t", ";">> => text = <<"&", "l", "t", ";">>
    /\ input = <<"&", "c", "o", "p", "y", ";">> => text = input
    /\ \A e \in 1..Len(Entities) :
         /\ input = Entities[e].old => text = Entities[e].new
         /\ input = Amp \o Tail(Entities[e].old) => text = Entities[e].old

C12_Witness ==
  /\ op = "stripHTML"
  /\ status = "decoded"
  /\ input = Amp \o <<"l", "t", ";">>
  /\ text = <<"&", "l", "t", ";">>

(***************************************************************************)
(* C13.  A pass of markdownToHTML that starts at a list item starts at the *)
(* first line of a maximal run of items of that kind (unordered: "-", "*"  *)
(* or "+" and a space; ordered: digits, "." and a space), consumes exactly *)
(* that run, and writes one <ul> or <ol> element with one <li> for each    *)
(* line of the run; the line after the run is rendered by the next pass.   *)
(* "- a", "- b", "Not a list" gives one <ul> with two <li>, then           *)
(* <p>Not a list</p>.                                                      *)
(***************************************************************************)
IsItem(kind, l) == IF kind = <<"u", "l">> THEN isUnorderedItem(l) ELSE isOrderedItem(l)

\* The index (0-based) of the first line after the run of items of one kind
\* that starts at line n.
RunEnd(kind, ls, n) ==
  Min({j \in (n + 1)..Len(ls) : j = Len(ls) \/ ~IsItem(kind, ls[j + 1])})

ListOf(kind, items) ==
  OpenTag(kind) \o <<"\n">>
  \o Concat([k \in 1..Len(items) |->
               OpenTag(<<"l", "i">>) \o items[k] \o CloseTag(<<"l", "i">>) \o <<"\n">>])
  \o CloseTag(kind) \o <<"\n">>

TwoItemsThenText ==
  <<"-", " ", "a", "\n", "-", " ", "b", "\n",
    "N", "o", "t", " ", "a", " ", "l", "i", "s", "t">>

C13_OneListPerRun ==
  /\ (op = "markdownToHTML" /\ status = "scan" /\ i < Len(lines)) =>
       \A kind \in {<<"u", "l">>, <<"o", "l">>} :
         IsItem(kind, lines[i + 1]) =>
               /\ i = 0 \/ ~IsItem(kind, lines[i])
               /\ LoopPass(lines, i).st = "returned"
               /\ LoopPass(lines, i).next = RunEnd(kind, lines, i)
               /\ HasPrefix(LoopPass(lines, i).html, OpenTag(kind) \o <<"\n">>)
               /\ CountOf(LoopPass(lines, i).html, OpenTag(kind)) = 1
               /\ CountOf(LoopPass(lines, i).html, CloseTag(kind)) = 1
               /\ CountOf(LoopPass(lines, i).html, OpenTag(<<"l", "i">>))
                    = RunEnd(kind, lines, i) - i
               /\ CountOf(LoopPass(lines, i).html, CloseTag(<<"l", "i">>) \o <<"\n">>)
                    = RunEnd(kind, lines, i) - i
  /\ (op = "markdownToHTML" /\ status = "returned") =>
       /\ input = TwoItemsThenText =>
            result = ListOf(<<"u", "l">>, << <<"a">>, <<"b">> >>)
                     \o OpenTag(<<"p">>) \o SubSeq(TwoItemsThenText, 9, 18)
                     \o CloseTag(<<"p">>) \o <<"\n">>
       /\ input = <<"1", ".", " ", "a", "\n", "1", ".", " ", "a", "\n", "-", " ", "a">> =>
            result = ListOf(<<"o", "l">>, << <<"a">>, <<"a">> >>) \o ListOf(<<"u", "l">>, << <<"a">> >>)

C13_Witness ==
  /\ op = "markdownToHTML"
  /\ status = "returned"
  /\ input = TwoItemsThenText
  /\ result = ListOf(<<"u", "l">>, << <<"a">>, <<"b">> >>)
              \o OpenTag(<<"p">>) \o SubSeq(TwoItemsThenText, 9, 18)
              \o CloseTag(<<"p">>) \o <<"\n">>

(***************************************************************************)
(* C14.  A line of k markers "> " (k >= 1) followed by text, with no       *)
(* quoted line after it, is rendered as k nested <blockquote> elements     *)
(* around one paragraph holding the text; "> > nested" gives two.          *)
(***************************************************************************)
Nested == <<"n", "e", "s", "t", "e", "d">>

RECURSIVE Markers(_)
Markers(k) == IF k = 0 THEN <<>> ELSE <<">", " ">> \o Markers(k - 1)

RECURSIVE Blockquotes(_, _)
Blockquotes(k, inner) ==
  IF k = 0 THEN inner
  ELSE OpenTag(<<"b", "l", "o", "c", "k", "q", "u", "o", "t", "e">>) \o <<"\n">>
       \o Blockquotes(k - 1, inner)
       \o CloseTag(<<"b", "l", "o", "c", "k", "q", "u", "o", "t", "e">>) \o <<"\n">>

C14_NestedQuotes ==
  /\ (op = "markdownToHTML" /\ status = "scan" /\ i < Len(lines)) =>
       \A k \in 1..Len(lines[i + 1]) :
         ( /\ lines[i + 1] = Markers(k) \o Nested
           /\ i + 1 = Len(lines) \/ ~HasPrefix(lines[i + 2], <<">">>) ) =>
           /\ LoopPass(lines, i).st = "returned"
           /\ LoopPass(lines, i).next = i + 1
           /\ LoopPass(lines, i).html
                = Blockquotes(k, OpenTag(<<"p">>) \o Nested \o CloseTag(<<"p">>) \o <<"\n">>)
  /\ (op = "markdownToHTML" /\ status = "returned" /\ input = Markers(2) \o Nested) =>
       result = Blockquotes(2, OpenTag(<<"p">>) \o Nested \o CloseTag(<<"p">>) \o <<"\n">>)

C14_Witness ==
  /\ op = "markdownToHTML"
  /\ status = "returned"
  /\ input = Markers(2) \o Nested
  /\ CountOf(result, OpenTag(<<"b", "l", "o", "c", "k", "q", "u", "o", "t", "e">>)) = 2
  /\ CountOf(result, OpenTag(<<"p">>) \o Nested \o CloseTag(<<"p">>)) = 1

(***************************************************************************)
(* C15.  ExtractBodyContent returns its input when the input holds no      *)
(* "<body" in any letter case; otherwise, when a ">" follows the first     *)
(* "<body", it returns the text from just after that ">" to just before    *)
(* the last "</body>" in any letter case, or to the end of the input when  *)
(* there is none.                                                          *)
(***************************************************************************)
\* pat, a lower-case ASCII string, stands at offset p (0-based) of s in some
\* letter case.
FoldPrefixAt(s, p, pat) ==
  /\ p >= 0
  /\ p + Len(pat) <= Len(s)
  /\ \A k \in 1..Len(pat) : LowerASCII(s[p + k]) = pat[k]

\* The offsets (0-based) of s at which pat stands in some letter case.
FoldOffsets(s, pat) == {p \in 0..Len(s) : FoldPrefixAt(s, p, pat)}

\* The text between the opening tag that starts at offset start and the
\* last of the closing tags at the offsets closes.
BodyText(s, start, closes) ==
  LET gt == Min({q \in start..Len(s) : q = Len(s) \/ s[q + 1] = ">"})
  IN  IF gt = Len(s) THEN s
      ELSE IF closes = {} THEN Slice(s, gt + 1, Len(s))
      ELSE Slice(s, gt + 1, Max(closes))

C15_ExtractSemantics ==
  (op = "ExtractBodyContent") =>
    /\ status = "returned"
    /\ result = IF FoldOffsets(input, <<"<", "b", "o", "d", "y">>) = {} THEN input
                ELSE BodyText(input, Min(FoldOffsets(input, <<"<", "b", "o", "d", "y">>)),
                              FoldOffsets(input, <<"<", "/", "b", "o", "d", "y", ">">>))

(***************************************************************************)
(* C16.  ParseBodyFormat returns exactly one format for every selector:    *)
(* FormatMarkdown when the selector, without the white space around it and *)
(* in any letter case, is md or markdown, FormatHTML when it is html, and  *)
(* FormatText for every other selector, the empty one included.            *)
(***************************************************************************)
\* s is white space, one of words in some letter case, white space.
Selects(s, words) ==
  \E a \in 0..Len(s) : \E b \in a..Len(s) :
    /\ \A p \in (1..a) \cup ((b + 1)..Len(s)) : s[p] \in {" ", "\t", "\n", "\r", "\f"}
    /\ ToLower(SubSeq(s, a + 1, b)) \in words

C16_SelectorMapping ==
  (op = "ParseBodyFormat") =>
    /\ status = "returned"
    /\ format \in Formats
    /\ format = "FormatMarkdown"
         <=> Selects(input, {<<"m", "d">>, <<"m", "a", "r", "k", "d", "o", "w", "n">>})
    /\ format = "FormatHTML" <=> Selects(input, {<<"h", "t", "m", "l">>})
    /\ input = <<>> => format = "FormatText"

C16_Witness ==
  /\ op = "ParseBodyFormat"
  /\ input = <<" ", "M", "a", "r", "k", "D", "o", "w", "n", "\n">>
  /\ format = "FormatMarkdown"

(***************************************************************************)
(* C17.  For a reference that parses as the integer n, resolveMessageID    *)
(* returns the n-th cached ID (counted from 1) exactly when the cache file *)
(* exists and 1 <= n <= its length, and an error otherwise, on which the   *)
(* mail operation returns before any Graph request; a reference that is no *)
(* integer is used as the message ID itself, whatever the cache holds.     *)
(***************************************************************************)
C17_ResolveReference ==
  (op = "Read") =>
    /\ IF Atoi(input).ok
       THEN IF cache.file # "absent" /\ 1 <= Atoi(input).n /\ Atoi(input).n <= Len(cache.ids)
            THEN status = "requested" /\ result = cache.ids[Atoi(input).n]
            ELSE status = "failed"
       ELSE status = "requested" /\ result = input
    /\ input \in {<<"0">>, <<"-", "1">>} => status = "failed"
    /\ input \in {<<"1">>, <<"+", "1">>, <<"0", "1">>} =>
         IF Len(cache.ids) >= 1 THEN status = "requested" /\ result = cache.ids[1]
         ELSE status = "failed"
    /\ input \in {<<"m">>, <<"1", "m">>, <<"-">>, <<>>} =>
         status = "requested" /\ result = input

C17_Witness ==
  /\ op = "Read"
  /\ input = <<"2">>
  /\ cache = ListFile(<<"m1", "m2">>)
  /\ status = "requested"
  /\ result = "m2"

(***************************************************************************)
(* C18.  The tag loop of stripHTML writes every character that stands      *)
(* outside a tag, a ">" outside a tag included, and drops every character  *)
(* from a "<" through the next ">".                                        *)
(***************************************************************************)
\* The characters of s from position p (1-based) on that stand outside
\* "<" ... ">", inTag telling whether p is inside a tag.
RECURSIVE OutsideTags(_, _, _)
OutsideTags(s, p, inTag) ==
  IF p > Len(s) THEN <<>>
  ELSE IF inTag THEN OutsideTags(s, p + 1, s[p] # ">")
  ELSE IF s[p] = "<" THEN OutsideTags(s, p + 1, TRUE)
  ELSE <<s[p]>> \o OutsideTags(s, p + 1, FALSE)

C18_TextOutsideTagsKept ==
  (op = "stripHTML" /\ status = "tags") => text = OutsideTags(input, 1, FALSE)

(***************************************************************************)
(* C19.  Outside a fenced code block a line that is ---, *** or ___ after  *)
(* trimming is rendered as <hr>: a pass of markdownToHTML that does not    *)
(* start at a fence consumes such a line only as its one line, writing     *)
(* <hr>, and never as a further line of a paragraph.                       *)
(***************************************************************************)
C19_RuleNeverAbsorbed ==
  (op = "markdownToHTML" /\ status = "scan" /\ i < Len(lines)
     /\ ~HasPrefix(lines[i + 1], Fence)) =>
    \A k \in i..(LoopPass(lines, i).next - 1) :
      IsRule(lines[k + 1]) =>
        /\ k = i
        /\ LoopPass(lines, i).next = i + 1
        /\ LoopPass(lines, i).html = OpenTag(<<"h", "r">>) \o <<"\n">>

(***************************************************************************)
(* C20.  Every maximal run of lines that start with ">", followed by a     *)
(* space or not, is rendered as one <blockquote> holding the output of     *)
(* markdownToHTML for those lines without their marker: a pass that starts *)
(* at such a line consumes the run and writes that element, and a pass     *)
(* that starts at another line outside a fence consumes no such line.      *)
(***************************************************************************)
\* The index (0-based) of the first line at or after n that does not start
\* with ">".
QuoteRunEnd(ls, n) ==
  Min({j \in n..Len(ls) : j = Len(ls) \/ ~HasPrefix(ls[j + 1], <<">">>)})

C20_QuoteRuns ==
  (op = "markdownToHTML" /\ status = "scan" /\ i < Len(lines)) =>
    IF HasPrefix(lines[i + 1], <<">">>)
    THEN /\ LoopPass(lines, i).next = QuoteRunEnd(lines, i)
         /\ LoopPass(lines, i).html
              = Blockquotes(1, markdownToHTML(
                                 MapLines([k \in 1..Len(lines) |-> QuoteLine(lines[k])],
                                          i, QuoteRunEnd(lines, i))).val)
    ELSE HasPrefix(lines[i + 1], Fence)
         \/ \A k \in i..(LoopPass(lines, i).next - 1) : ~HasPrefix(lines[k + 1], <<">">>)

(***************************************************************************)
(* C21.  renderInline turns [text](url) into an anchor whose href is the   *)
(* URL as written and whose content is the text as written, also for a URL *)
(* that holds underscores or asterisks: no pass alters the URL.            *)
(***************************************************************************)
\* The URL of s when s is [a](url) with a URL that is not empty and holds no
\* parenthesis and no backtick; the empty string otherwise.
LinkURL(s) ==
  IF /\ Len(s) >= 6
     /\ SubSeq(s, 1, 4) = <<"[", "a", "]", "(">>
     /\ s[Len(s)] = ")"
     /\ \A p \in 5..(Len(s) - 1) : s[p] \in {"u", "_", "*"}
  THEN SubSeq(s, 5, Len(s) - 1)
  ELSE <<>>

C21_LinkVerbatim ==
  (op = "renderInline" /\ LinkURL(input) # <<>>) =>
    result = <<"<", "a", " ", "h", "r", "e", "f", "=", "\"">> \o LinkURL(input)
             \o <<"\"", ">", "a", "<", "/", "a", ">">>

(***************************************************************************)
(* C24.  renderInline returns its input unchanged for a line in which no   *)
(* delimiter is matched: one backtick, one * or **, one _ or __, a link    *)
(* without its closing parenthesis, or a pair of delimiters with nothing   *)
(* between them.                                                           *)
(***************************************************************************)
UnmatchedLines ==
  { <<Backtick>>, <<Backtick, "u">>, <<"u", Backtick>>,
    <<"*">>, <<"*", "u">>, <<"*", "*">>, <<"*", "*", "u">>,
    <<"_">>, <<"_", "u">>, <<"_", "_">>, <<"_", "_", "u">>,
    <<"[", "a", "]", "(">>, <<"[", "a", "]", "(", "u">>,
    <<Backtick, Backtick>>, <<"*", "*", "*", "*">>, <<"_", "_", "_", "_">>,
    <<"[", "a", "]", "(", ")">> }

C24_UnmatchedUnchanged ==
  (op = "renderInline" /\ input \in UnmatchedLines) =>
    status = "returned" /\ result = input

(***************************************************************************)
(* C22.  A pass of markdownToHTML at a line that begins with three         *)
(* backticks writes one code block holding, escaped and otherwise as       *)
(* written, every following line before the next line that begins with     *)
(* three backticks, or up to the end of the source; the <code> element has *)
(* the class language-<tag> exactly when a tag that is not empty follows   *)
(* the opening fence; the lines after the closing fence are rendered as    *)
(* Markdown again.                                                         *)
(***************************************************************************)
\* The index (0-based) of the closing fence of the block opened at line n,
\* or len(ls).
FenceEnd(ls, n) ==
  Min({j \in (n + 1)..Len(ls) : j = Len(ls) \/ HasPrefix(ls[j + 1], Fence)})

PreCode == <<"<", "p", "r", "e", ">", "<", "c", "o", "d", "e">>

CodeBlock(ls, n) ==
  (IF \A p \in 4..Len(ls[n + 1]) : ls[n + 1][p] = " "
   THEN PreCode \o <<">">>
   ELSE PreCode \o <<" ", "c", "l", "a", "s", "s", "=", "\"",
                     "l", "a", "n", "g", "u", "a", "g", "e", "-">>
        \o TrimSpace(SubSeq(ls[n + 1], 4, Len(ls[n + 1]))) \o <<"\"", ">">>)
  \o Concat([k \in 1..(FenceEnd(ls, n) - n - 1) |-> EscapeString(ls[n + 1 + k]) \o <<"\n">>])
  \o <<"<", "/", "c", "o", "d", "e", ">", "<", "/", "p", "r", "e", ">", "\n">>

FencedItemThenItem ==
  Fence \o <<"\n", "-", " ", "a", "\n">> \o Fence \o <<"\n", "-", " ", "a">>

C22_FencedCode ==
  /\ (op = "markdownToHTML" /\ status = "scan" /\ i < Len(lines)
        /\ HasPrefix(lines[i + 1], Fence)) =>
       /\ LoopPass(lines, i).st = "returned"
       /\ LoopPass(lines, i).next = FenceEnd(lines, i) + 1
       /\ LoopPass(lines, i).html = CodeBlock(lines, i)
  /\ (op = "markdownToHTML" /\ status = "returned" /\ input = FencedItemThenItem) =>
       result = PreCode \o <<">", "-", " ", "a", "\n">>
                \o <<"<", "/", "c", "o", "d", "e", ">", "<", "/", "p", "r", "e", ">", "\n">>
                \o ListOf(<<"u", "l">>, << <<"a">> >>)

C22_Witness ==
  /\ op = "markdownToHTML"
  /\ status = "returned"
  /\ input = FencedItemThenItem
  /\ CountOf(result, PreCode \o <<">", "-", " ", "a", "\n", "<", "/", "c", "o", "d", "e", ">">>) = 1
  /\ CountOf(result, OpenTag(<<"l", "i">>)) = 1

(***************************************************************************)
(* C23.  textToHTMLFragment writes one <p> element for each paragraph of   *)
(* its input that is not all white space, in the order of the input, the   *)
(* paragraphs being the pieces between runs of two or more line feeds; a   *)
(* line feed inside a paragraph becomes <br> and a line feed; every other  *)
(* character, those of the Markdown syntax included, is written as text.   *)
(***************************************************************************)
\* The byte at position p (1-based) of s belongs to a run of two or more
\* line feeds.
InBreak(s, p) ==
  /\ s[p] = "\n"
  /\ (p > 1 /\ s[p - 1] = "\n") \/ (p < Len(s) /\ s[p + 1] = "\n")

\* The byte at position p belongs to a paragraph and is not part of the
\* white space at the paragraph's start or end.
InParagraph(s, p) ==
  /\ p >= 1 /\ p <= Len(s)
  /\ \E a \in 1..p : \E b \in p..Len(s) :
       /\ s[a] \notin {" ", "\n"}
       /\ s[b] \notin {" ", "\n"}
       /\ \A q \in a..b : ~InBreak(s, q)

ParagraphElements(s) ==
  Concat([p \in 1..Len(s) |->
            IF ~InParagraph(s, p) THEN <<>>
            ELSE (IF InParagraph(s, p - 1) THEN <<>> ELSE OpenTag(<<"p">>))
                 \o (IF s[p] = "\n" THEN <<"<", "b", "r", ">", "\n">>
                     ELSE IF s[p] = ">" THEN <<"&", "g", "t", ";">>
                     ELSE <<s[p]>>)
                 \o (IF InParagraph(s, p + 1) THEN <<>> ELSE CloseTag(<<"p">>) \o <<"\n">>)])

C23_ParagraphElements ==
  (op = "textToHTMLFragment") =>
    /\ status = "returned"
    /\ result = ParagraphElements(input)
    /\ \A c \in {"#", "*", "_", Backtick, "["} : CountOf(result, <<c>>) = CountOf(input, <<c>>)
    /\ CountOf(result, <<"&", "g", "t", ";">>) = CountOf(input, <<">">>)

C23_Witness ==
  /\ op = "textToHTMLFragment"
  /\ input = <<"#", "\n", "\n", "*">>
  /\ result = <<"<", "p", ">", "#", "<", "/", "p", ">", "\n",
                "<", "p", ">", "*", "<", "/", "p", ">", "\n">>

(***************************************************************************)
(* C25.  A List with page > 1 keeps every cached ID at its position and    *)
(* appends, in the order of the response, the IDs that were not cached;    *)
(* listing the same page again with the same response leaves the cache as  *)
(* it is; a List with page 1 and a Search replace the cache by the IDs of  *)
(* their response in the order shown; and no ID is in the cache twice.     *)
(***************************************************************************)
Cached(id) == \E k \in 1..Len(cache.ids) : cache.ids[k] = id

NoRepeatedID == \A j, k \in 1..Len(cache.ids) : j # k => cache.ids[j] # cache.ids[k]

CacheStep ==
  /\ (op' = "List" /\ status' = "idle" /\ page' > 1) =>
       /\ Len(cache'.ids) >= Len(cache.ids)
       /\ \A k \in 1..Len(cache.ids) : cache'.ids[k] = cache.ids[k]
       /\ SubSeq(cache'.ids, Len(cache.ids) + 1, Len(cache'.ids))
            = SelectSeq(shown', LAMBDA id : ~Cached(id))
       /\ (op = "List" /\ page = page' /\ shown = shown') => cache' = cache
  /\ (op' = "Search" \/ (op' = "List" /\ status' = "idle" /\ page' = 1)) =>
       cache' = ListFile(shown')
  /\ (op' = "List" /\ status' = "failed") => cache' = cache
  /\ op' = "Read" => cache' = cache

C25_CacheAccumulates == []NoRepeatedID /\ [][CacheStep]_vars

C25_Witness ==
  /\ op = "List"
  /\ page = 2
  /\ shown = <<"m2", "m1">>
  /\ cache = ListFile(<<"m1", "m2">>)

(***************************************************************************)
(* C30.  The offsets ExtractBodyContent finds in the lower-cased copy are  *)
(* offsets of the same tags in the original: for an input with a body tag  *)
(* the result is a piece of the input that starts right after the first    *)
(* opening body tag, whatever runes stand before the tag.  (Inputs in      *)
(* which a closing tag stands before the first opening tag are left out:   *)
(* C3.)                                                                    *)
(***************************************************************************)
BodyTagOffsets(s) == FoldOffsets(s, <<"<", "b", "o", "d", "y", ">">>)

C30_OffsetsInOriginal ==
  ( /\ op = "ExtractBodyContent"
    /\ BodyTagOffsets(input) # {}
    /\ \A c \in FoldOffsets(input, <<"<", "/", "b", "o", "d", "y", ">">>) :
         c > Min(BodyTagOffsets(input)) ) =>
    /\ status = "returned"
    /\ \E e \in 0..Len(input) :
         /\ e >= Min(BodyTagOffsets(input)) + 6
         /\ result = Slice(input, Min(BodyTagOffsets(input)) + 6, e)

(***************************************************************************)
(* C29.  Every request of List for the messages of the well-known folder   *)
(* sentitems, in whatever spelling the folder option named it, orders by   *)
(* sentDateTime, and every request for another folder orders by            *)
(* receivedDateTime.                                                       *)
(***************************************************************************)
C29_SentItemsOrder ==
  \A k \in 1..Len(requests) :
    (op = "List" /\ requests[k].kind = "list") =>
      requests[k].content = IF requests[k].target = <<"s", "e", "n", "t", "i", "t", "e", "m", "s">>
                            THEN <<"s", "e", "n", "t", "D", "a", "t", "e", "T", "i", "m", "e">>
                            ELSE <<"r", "e", "c", "e", "i", "v", "e", "d", "D", "a", "t", "e", "T", "i", "m", "e">>

(***************************************************************************)
(* Properties of Reply and Forward.                                        *)
(***************************************************************************)
\* The requests of kind kind among the requests of the running command.
RequestsOf(kind) == SelectSeq(requests, LAMBDA r : r.kind = kind)

\* The text between <body> and </body> of the complete document doc.
ContentOf(doc) == CHOOSE c \in Contents : doc = Document(c)

(***************************************************************************)
(* C26.  The body Forward patches onto the draft when it was given a body  *)
(* is wrapEmailHTML of the rendered body, the separator and                *)
(* ExtractBodyContent of the draft's HTML; when that HTML is one complete  *)
(* document, the patched body holds one <html> and one <body> element,     *)
(* and in it the rendered body, the separator and the content of the       *)
(* original's body, in this order.                                         *)
(***************************************************************************)
C26_OneDocument ==
  (op = "Forward" /\ input # <<>> /\ status \in {"read", "patched", "returned", "panicked"}) =>
    /\ status # "panicked"
    /\ \A k \in 1..Len(requests) :
         requests[k].kind = "patch" =>
           /\ requests[k].content.body.set
           /\ requests[k].content.body.val
                = wrapEmailHTML(RenderBodyInner(input, format).val \o Separator
                                \o ExtractBodyContent(locals.originalHTML).val)
           /\ locals.originalHTML # <<>> =>
                /\ \A tag \in {<<"<", "h", "t", "m", "l">>, <<"<", "/", "h", "t", "m", "l", ">">>,
                               <<"<", "b", "o", "d", "y">>, <<"<", "/", "b", "o", "d", "y", ">">>} :
                     CountOf(requests[k].content.body.val, tag) = 1
                /\ CountOf(requests[k].content.body.val,
                           RenderBodyInner(input, format).val \o Separator
                           \o ContentOf(locals.originalHTML) \o DocTail) = 1

(***************************************************************************)
(* C27.  Reply and Forward ask Graph to create the draft, then to patch    *)
(* it, then to send it (Forward with a body reads the draft between        *)
(* creating and patching it); a request is made only when every request    *)
(* before it succeeded, the command returns an error after a request       *)
(* that failed, and the line that reports success is printed only after    *)
(* the send request succeeded.                                             *)
(***************************************************************************)
\* s is a prefix of t.
IsPrefix(s, t) == Len(s) <= Len(t) /\ s = SubSeq(t, 1, Len(s))

StepsOf(command, body) ==
  IF command = "Forward" /\ body # <<>> THEN <<"create", "get", "patch", "send">>
  ELSE <<"create", "patch", "send">>

C27_StepsInOrder ==
  (op \in {"Reply", "Forward"}) =>
    /\ IsPrefix(Kinds(requests), StepsOf(op, input))
    /\ \A k \in 1..Len(requests) :
         IF requests[k].ok THEN k = Len(requests) => status # "failed"
         ELSE k = Len(requests) /\ status = "failed"
    /\ stderr # <<>> <=>
         /\ status = "returned"
         /\ Kinds(requests) = StepsOf(op, input)
         /\ requests[Len(requests)].ok
    /\ Len(stderr) <= 1
    /\ status = "returned" => stderr = <<Sent(op, locals.to)>>

C27_Witness ==
  /\ op = "Reply"
  /\ status = "returned"
  /\ Kinds(requests) = <<"create", "patch", "send">>
  /\ stderr = <<<<"R", "e", "p", "l", "y", " ", "s", "e", "n", "t", "\n">>>>

(***************************************************************************)
(* C28.  Forward without a body never reads the draft and never patches    *)
(* its body: the patch sets the CC recipients when --cc was given, the BCC *)
(* recipients when --bcc was given, and nothing else.                      *)
(***************************************************************************)
C28_EmptyBodyFrame ==
  (op = "Forward" /\ input = <<>>) =>
    /\ RequestsOf("get") = <<>>
    /\ locals.originalHTML = <<>>
    /\ \A k \in 1..Len(requests) :
         requests[k].kind = "patch" =>
           /\ ~requests[k].content.body.set
           /\ requests[k].content.cc
                = (IF locals.cc = <<>> THEN Unset
                   ELSE IF locals.cc = <<"c", ",", " ", "d">> THEN SetTo(<< <<"c">>, <<"d">> >>)
                   ELSE SetTo(<<locals.cc>>))
           /\ requests[k].content.bcc
                = (IF locals.bcc = <<>> THEN Unset ELSE SetTo(<<locals.bcc>>))

C28_Witness ==
  /\ op = "Forward"
  /\ input = <<>>
  /\ status = "returned"
  /\ Len(RequestsOf("patch")) = 1
  /\ RequestsOf("patch")[1].content
       = [body |-> Unset, cc |-> SetTo(<< <<"c">>, <<"d">> >>), bcc |-> Unset]

====
